---- MODULE Spec2Model ----
(***************************************************************************)
(* Mailbox storage and expiry engine of temp-mail-api.                     *)
(*                                                                         *)
(* The store is Redis (Upstash REST client in src/server.js, ioredis in    *)
(* the other variants).  Each rGet/rSetEX/rLPush/rLTrim/rLRange/rExpire/   *)
(* rDel call is one atomic store command; a handler is a sequence of such  *)
(* commands with an await between them, so handlers interleave command by  *)
(* command.  Redis removes a list key when its last element is removed,    *)
(* LPUSH creates a missing key without expiry, EXPIRE on a missing key     *)
(* does nothing, and a key whose expiry time is reached is gone.           *)
(*                                                                         *)
(* Spec is the deployment of src/server.js lines 197-736 (handleCreate,    *)
(* handleInbox, /incoming-email, /mailgun/inbound over storeMessage);      *)
(* SpecIngest the same without /create; SpecRetention its storeMessage run *)
(* past the cap of 200; SpecPush the /push route of src/server.js lines    *)
(* 35-113; SpecPipeline the ioredis variant of src/unnamed/part_005,       *)
(* SpecPipelineReaders and SpecPipelineDelete its readers and its DELETE   *)
(* route; SpecSmtp the SMTP ingest of src/unnamed/part_002; SpecList the   *)
(* first server of src/unnamed/part_000; SpecReaders the readers of        *)
(* src/server.js on a store that may fail or stay silent; SpecInbound its  *)
(* /cloudflare/inbound route with both readers; SpecCase its ingestion of  *)
(* recipients spelled with capital letters; SpecListing the two listings   *)
(* of src/server.js over a long directory; SpecGate the SMTP server of     *)
(* src/unnamed/part_000 lines 122-194 beside /incoming-email; SpecAttach   *)
(* storeAttachments and handleAttachment; SpecParse mails the MIME parser  *)
(* refuses; SpecCrash appends abandoned after their push; SpecReadOnly    *)
(* the three readers of src/server.js beside an ingestion;                 *)
(* SpecCreateFrame /create beside ingestions and fetches; SpecMailbox the  *)
(* storeMessage and DELETE route of src/unnamed/part_001; SpecAuth the API *)
(* key of the ingestion entry points; SpecRetry the reconnect back-off of  *)
(* the ioredis client.                                                     *)
(***************************************************************************)
EXTENDS Integers, Sequences, FiniteSets, TLC

(* ---------------------------------------------------------------------- *)
(* Bounds of the model                                                     *)
(* ---------------------------------------------------------------------- *)
\* INBOX_TTL / MSG_TTL are read from the environment (default 600 s); the
\* model runs a configuration with short windows, the two being different.
INBOX_TTL == 2
MSG_TTL == 1
\* MAX_ATTACH_BYTES is read from the environment (default 2 MB); the model
\* runs a ceiling of a few bytes.
MAX_ATTACH_BYTES == 4
\* Reconnection attempts the store client is followed through.
MaxRetries == 120

\* Seconds of wall-clock time the model lets pass.
MaxClock == 2
\* Write requests (mailbox creations and ingestions) started in one run;
\* listings are not limited.
MaxWrites == 2
\* Ingestions of one sequential run of SpecRetention (past the cap of 200).
RetentionAppends == 202

(* ---------------------------------------------------------------------- *)
(* Program constants                                                       *)
(* ---------------------------------------------------------------------- *)
\* ltrim(mbox, 0, 199): index of the last retained entry.
TRIM_LAST == 199
\* lrange(key, 0, 49): index of the last listed entry.
LIST_LAST == 49
\* The "__init__" placeholder pushed by handleCreate; message ids are
\* integers in the model and 0 is never generated as a message id.
INIT_PLACEHOLDER == 0
\* slice(0, 160): length of a preview.
PREVIEW_LEN == 160
\* The second server of src/server.js (from line 738): lrange(key, 0, 199)
\* and slice(0, 220) in GET /inbox/:local.
WIDE_LAST == 199
WIDE_PREVIEW_LEN == 220

Procs == {"p1", "p2"}

\* Characters of addresses; an address is a sequence of characters.
LowerOf(c) ==
  IF c = "A" THEN "a" ELSE IF c = "B" THEN "b" ELSE IF c = "D" THEN "d" ELSE c

\* Faulty variant of toLowerCase: the text is left as it is.
toLowerCaseNone(s) == s

\* String.prototype.toLowerCase
toLowerCase(s) == [i \in 1..Len(s) |-> LowerOf(s[i])]

\* String.prototype.includes("@")
includesAt(s) == \E i \in 1..Len(s) : s[i] = "@"

\* s.split("@")[0]: the text before the first "@", the whole text without one.
RECURSIVE splitAt0(_)
splitAt0(s) ==
  IF s = <<>> \/ Head(s) = "@" THEN <<>> ELSE <<Head(s)>> \o splitAt0(Tail(s))

\* Recipient addresses offered to the ingestion entry points: well formed in
\* lower and upper case, without "@", and empty.
Addrs ==
  { <<"a", "@", "d", ".", "g">>, <<"A", "@", "d", ".", "g">>, <<"b", "@", "d", ".", "g">>,
    <<"a">>, <<>> }

\* The recipient check of the specification: the address contains "@".
ValidRecipient(to) == includesAt(to)

\* DOMAIN of the deployment.
DOMAIN_NAME == <<"d", ".", "g">>

\* Local parts handleCreate can draw (Math.random().toString(36).slice(2, 10)).
CreateLocals == { <<"a">>, <<"b">> }

\* Ids a caller of /incoming-email can supply in the request body.
SuppliedIds == { 901 }

Texts == { <<"t", "1">> }
Senders == { "", "s" }

\* API_KEY of the deployment and the keys a request can carry ("" = none).
API_KEY == "k"
SentKeys == { "", "k", "x" }

(* ---------------------------------------------------------------------- *)
(* State                                                                   *)
(* ---------------------------------------------------------------------- *)
VARIABLES
  inbox,    \* list keys inbox:<local>: local -> [items, exp]; DOMAIN = existing keys
  msg,      \* string keys msg:<id>: id -> [val, exp]; DOMAIN = existing keys
  now,      \* wall-clock time in seconds
  proc,     \* the request each handler instance is serving and its position
  nextId,   \* source of the ids Math.random() yields (each one new)
  budget,   \* write requests still to be started
  stamp     \* history: number of LPUSH commands executed so far

vars == <<inbox, msg, now, proc, nextId, budget, stamp>>

(* ---------------------------------------------------------------------- *)
(* The key-value store (one Redis command each)                            *)
(* ---------------------------------------------------------------------- *)
NoExpiry == [has |-> FALSE, at |-> 0]
ExpiryAt(t) == [has |-> TRUE, at |-> t]

Put(f, k, v) == [x \in (DOMAIN f) \cup {k} |-> IF x = k THEN v ELSE f[x]]
Remove(f, k) == [x \in (DOMAIN f) \ {k} |-> f[x]]

Min(a, b) == IF a < b THEN a ELSE b
Max(a, b) == IF a > b THEN a ELSE b

\* Redis list indexes are zero based; a negative index counts from the tail.
ListIndex(i, n) == IF i < 0 THEN n + i ELSE i

ListSlice(items, s, e) ==
  LET n  == Len(items)
      s0 == Max(ListIndex(s, n), 0)
      e0 == Min(ListIndex(e, n), n - 1)
  IN  IF s0 > e0 THEN <<>> ELSE SubSeq(items, s0 + 1, e0 + 1)

\* GET key: nil for a missing key.
rGet(m, k) == IF k \in DOMAIN m THEN [nil |-> FALSE, val |-> m[k].val] ELSE [nil |-> TRUE]

\* SET key value EX ttl
rSetEX(m, k, v, ex, t) == Put(m, k, [val |-> v, exp |-> ExpiryAt(t + ex)])

\* Faulty variant of rLPush: the value is added at the tail (RPUSH).
rLPushTail(l, k, v) ==
  IF k \in DOMAIN l
    THEN [l EXCEPT ![k].items = @ \o <<v>>]
    ELSE Put(l, k, [items |-> <<v>>, exp |-> NoExpiry])

\* LPUSH key value: a missing key is created, without expiry.
rLPush(l, k, v) ==
  IF k \in DOMAIN l
    THEN [l EXCEPT ![k].items = <<v>> \o @]
    ELSE Put(l, k, [items |-> <<v>>, exp |-> NoExpiry])

\* LTRIM key start stop: a list left empty is removed.
rLTrim(l, k, s, e) ==
  IF k \notin DOMAIN l THEN l
  ELSE LET kept == ListSlice(l[k].items, s, e)
       IN  IF kept = <<>> THEN Remove(l, k) ELSE [l EXCEPT ![k].items = kept]

\* LRANGE key start stop: a missing key reads as the empty list.
rLRange(l, k, s, e) == IF k \in DOMAIN l THEN ListSlice(l[k].items, s, e) ELSE <<>>

\* EXPIRE key seconds: sets the expiry to now + seconds; nothing on a missing key.
rExpire(l, k, sec, t) ==
  IF k \in DOMAIN l THEN [l EXCEPT ![k].exp = ExpiryAt(t + sec)] ELSE l

\* Faulty variant of rDel: the key is left in place.
rDelNone(l, k) == l

\* DEL key
rDel(l, k) == Remove(l, k)

\* Keys whose expiry time has come are gone.
Unexpired(f, t) == [k \in {x \in DOMAIN f : ~(f[x].exp.has /\ f[x].exp.at <= t)} |-> f[k]]

\* Remaining time to live of a key (TTL key): -2 missing, -1 no expiry.
RemainingTTL(f, k) ==
  IF k \notin DOMAIN f THEN -2
  ELSE IF ~f[k].exp.has THEN -1 ELSE f[k].exp.at - now

(* ---------------------------------------------------------------------- *)
(* Handler instances                                                       *)
(* ---------------------------------------------------------------------- *)
\* op/pc: the handler and the store command it issues next ("done": the
\* response was sent and the store has not changed since).  local, id, text:
\* the request (text only where a later store command needs it).  ids, i,
\* out: the listing loop.  status: the HTTP status of the response.
\* History: writes (store writes issued), clean (no other request and no
\* expiry changed the store while this one ran), badTo (the recipient the
\* request named is not a valid address), sawFresh (the listing read the
\* directory right after an undisturbed handleCreate of it), pre (what the
\* directory was before the request wrote to it: its remaining TTL for an
\* ingestion, its number of message ids for a creation), didSet, didPush,
\* timer (a timeout is armed on the store call the request awaits), cause
\* (what ended the store call the response rests on: "answer", "timeout" or
\* "error"; "" when the request met no store fault).
\* Mails with attachments: to (the lowercased recipient), atts (the
\* attachments of the parsed mail), meta (the metadata storeAttachments has
\* built so far; i counts the attachments done).  handleAttachment: idx, and
\* error, the error name of a response that is not 200.  html is the HTML
\* body of the parsed mail.  sent is the key the entry point read from the
\* request (KeyedRequest).  The store client while it reconnects: i counts
\* the attempts, delay is the wait retryStrategy returned, in milliseconds.
Idle ==
  [op |-> "idle", pc |-> "idle", local |-> <<>>, id |-> 0, text |-> <<>>,
   ids |-> <<>>, i |-> 0, out |-> <<>>, status |-> 0,
   writes |-> 0, clean |-> TRUE, badTo |-> FALSE, sawFresh |-> FALSE,
   pre |-> 0, didSet |-> FALSE, didPush |-> FALSE, timer |-> FALSE, cause |-> "",
   to |-> <<>>, atts |-> <<>>, meta |-> <<>>, idx |-> 0, error |-> "", html |-> <<>>,
   sent |-> "", delay |-> 0]

\* An undisturbed handleCreate of l has just answered.
JustCreated(l) ==
  \E q \in Procs : /\ proc[q].op = "create" /\ proc[q].pc = "done"
                    /\ proc[q].local = l /\ proc[q].clean

\* A handler instance is free once it has answered.
Ready(p) == proc[p].op = "idle" \/ proc[p].pc = "done"

\* Time passed or the store changed: answered requests are in the past.
Settle(pr, me) ==
  [q \in Procs |-> IF q # me /\ pr[q].pc = "done" THEN Idle ELSE pr[q]]

\* The store changed: requests in flight are no longer undisturbed.
Disturb(pr, me) ==
  [q \in Procs |->
     IF q = me \/ pr[q].op = "idle" THEN pr[q]
     ELSE IF pr[q].pc = "done" THEN Idle
     ELSE [pr[q] EXCEPT !.clean = FALSE]]

\* Number of message ids (elements other than the placeholder) of a list.
RECURSIVE CountIds(_)
CountIds(items) ==
  IF items = <<>> THEN 0
  ELSE (IF Head(items).id = INIT_PLACEHOLDER THEN 0 ELSE 1) + CountIds(Tail(items))

\* What the store holds for list key l: existence, elements, remaining TTL.
EntryView(l) ==
  IF l \in DOMAIN inbox
    THEN [ex |-> TRUE, items |-> inbox[l].items, ttl |-> RemainingTTL(inbox, l)]
    ELSE [ex |-> FALSE, items |-> <<>>, ttl |-> -2]

\* A list element: the pushed id, stamped with the number of the LPUSH that
\* pushed it (the stamp is history, the store holds the id).
Elem(id) == [id |-> id, seq |-> stamp + 1]

Init ==
  /\ inbox = <<>>
  /\ msg = <<>>
  /\ now = 0
  /\ proc = [p \in Procs |-> Idle]
  /\ nextId = 1
  /\ budget = MaxWrites
  /\ stamp = 0

(* ---------------------------------------------------------------------- *)
(* Time                                                                    *)
(* ---------------------------------------------------------------------- *)
Tick ==
  /\ now < MaxClock
  /\ now' = now + 1
  /\ inbox' = Unexpired(inbox, now + 1)
  /\ msg' = Unexpired(msg, now + 1)
  /\ proc' = IF inbox' = inbox /\ msg' = msg THEN Settle(proc, "none")
                                                ELSE Disturb(proc, "none")
  /\ UNCHANGED <<nextId, budget, stamp>>

(* ---------------------------------------------------------------------- *)
(* POST /create                                                            *)
(* ---------------------------------------------------------------------- *)
\* Faulty variant of CreateDel: the records the directory names are deleted
\* with it.
CreateDelCascade(p) ==
  /\ Ready(p)
  /\ budget > 0
  /\ \E local \in CreateLocals :
       /\ proc' = [Disturb(proc, p) EXCEPT ![p] =
                     [Idle EXCEPT !.op = "create", !.pc = "lpush", !.local = local,
                                  !.writes = 1,
                                  !.pre = CountIds(rLRange(inbox, local, 0, -1))]]
       /\ inbox' = rDel(inbox, local)
       /\ msg' = [k \in { i \in DOMAIN msg :
                            \A j \in 1..Len(rLRange(inbox, local, 0, -1)) :
                              rLRange(inbox, local, 0, -1)[j].id # i } |-> msg[k]]
  /\ budget' = budget - 1
  /\ UNCHANGED <<now, nextId, stamp>>

\* rDel(key): the handler draws a local part and clears its directory.
CreateDel(p) ==
  /\ Ready(p)
  /\ budget > 0
  /\ \E local \in CreateLocals :
       /\ proc' = [Disturb(proc, p) EXCEPT ![p] =
                     [Idle EXCEPT !.op = "create", !.pc = "lpush", !.local = local,
                                  !.writes = 1,
                                  !.pre = CountIds(rLRange(inbox, local, 0, -1))]]
       /\ inbox' = rDel(inbox, local)
  /\ budget' = budget - 1
  /\ UNCHANGED <<msg, now, nextId, stamp>>

\* rLPush(key, "__init__")
CreateLPush(p) ==
  /\ proc[p].op = "create" /\ proc[p].pc = "lpush"
  /\ LET l == proc[p].local IN
       /\ inbox' = rLPush(inbox, l, Elem(INIT_PLACEHOLDER))
  /\ stamp' = stamp + 1
  /\ proc' = [Disturb(proc, p) EXCEPT ![p].pc = "ltrim", ![p].writes = @ + 1]
  /\ UNCHANGED <<msg, now, nextId, budget>>

\* rLTrim(key, 1, -1)
CreateLTrim(p) ==
  /\ proc[p].op = "create" /\ proc[p].pc = "ltrim"
  /\ LET l == proc[p].local IN
       /\ inbox' = rLTrim(inbox, l, 1, -1)
  /\ proc' = [Disturb(proc, p) EXCEPT ![p].pc = "expire", ![p].writes = @ + 1]
  /\ UNCHANGED <<msg, now, nextId, budget, stamp>>

\* rExpire(key, INBOX_TTL); res.json({ ok: true, ..., expires_in: INBOX_TTL })
CreateExpire(p) ==
  /\ proc[p].op = "create" /\ proc[p].pc = "expire"
  /\ LET l == proc[p].local IN
       /\ inbox' = rExpire(inbox, l, INBOX_TTL, now)
  /\ proc' = [Disturb(proc, p) EXCEPT ![p].pc = "done", ![p].status = 200,
                                      ![p].writes = @ + 1]
  /\ UNCHANGED <<msg, now, nextId, budget, stamp>>

handleCreate(p) == CreateDel(p) \/ CreateLPush(p) \/ CreateLTrim(p) \/ CreateExpire(p)

(* ---------------------------------------------------------------------- *)
(* storeMessage and the ingestion entry points                             *)
(* ---------------------------------------------------------------------- *)
\* A request refused before storeMessage is called.
Refuse(p, op, code, bad) ==
  /\ proc' = [proc EXCEPT ![p] = [Idle EXCEPT !.op = op, !.pc = "done", !.status = code,
                                               !.badTo = bad]]
  /\ UNCHANGED <<inbox, msg, now, nextId, budget, stamp>>

\* The entry points of src/server.js that go through storeMessage.
StoreOps == {"incoming", "mailgun", "cloudflare", "pushform"}

\* storeMessage up to its first store command: msgId, toLc and local are
\* computed, the record is built and rSetEX(messageKey(msgId), msg, MSG_TTL)
\* is issued.  idIn = nextId stands for an id drawn by Math.random().  The
\* entry points modelled pass attachments: [], so storeAttachments issues no
\* store command; the addresses of the model hold no blank for trim() to
\* remove.
StoreSetRaw(p, op, idIn, to, text, raw) ==
  LET toLc  == toLowerCase(to)
      local == splitAt0(toLc)
  IN  /\ budget > 0
      /\ budget' = budget - 1
      /\ nextId' = IF idIn = nextId THEN nextId + 1 ELSE nextId
      /\ msg' = rSetEX(msg, idIn, [id |-> idIn, to |-> toLc, text |-> text, raw |-> raw],
                       MSG_TTL, now)
      /\ proc' = [Disturb(proc, p) EXCEPT ![p] =
                    [Idle EXCEPT !.op = op, !.pc = "lpush", !.local = local,
                                 !.id = idIn, !.writes = 1, !.didSet = TRUE,
                                 !.badTo = ~ValidRecipient(to)]]
      /\ UNCHANGED <<inbox, now, stamp>>

\* storeMessage called without raw: msg.raw is "".
StoreSet(p, op, idIn, to, text) == StoreSetRaw(p, op, idIn, to, text, <<>>)

\* Faulty variant of StoreLPush: the directory is written back as a list of
\* the new id alone, so an id pushed meanwhile is lost.
StoreLPushAlone(p) ==
  /\ proc[p].op \in StoreOps /\ proc[p].pc = "lpush"
  /\ LET l == proc[p].local IN
       /\ inbox' = [k \in DOMAIN inbox \cup {l} |->
                      IF k = l THEN [items |-> <<Elem(proc[p].id)>>, exp |-> NoExpiry]
                      ELSE inbox[k]]
  /\ stamp' = stamp + 1
  /\ proc' = [Disturb(proc, p) EXCEPT ![p].pc = "ltrim", ![p].writes = @ + 1,
                                      ![p].didPush = TRUE,
                                      ![p].pre = RemainingTTL(inbox, proc[p].local)]
  /\ UNCHANGED <<msg, now, nextId, budget>>

\* rLPush(mbox, msgId)
StoreLPush(p) ==
  /\ proc[p].op \in StoreOps /\ proc[p].pc = "lpush"
  /\ LET l == proc[p].local IN
       /\ inbox' = rLPush(inbox, l, Elem(proc[p].id))
  /\ stamp' = stamp + 1
  /\ proc' = [Disturb(proc, p) EXCEPT ![p].pc = "ltrim", ![p].writes = @ + 1,
                                      ![p].didPush = TRUE,
                                      ![p].pre = RemainingTTL(inbox, proc[p].local)]
  /\ UNCHANGED <<msg, now, nextId, budget>>

\* Faulty variant of StoreLTrim: ltrim(mbox, -200, -1) keeps the oldest ids.
StoreLTrimOldest(p) ==
  /\ proc[p].op \in StoreOps /\ proc[p].pc = "ltrim"
  /\ LET l == proc[p].local IN
       /\ inbox' = rLTrim(inbox, l, 0 - (TRIM_LAST + 1), -1)
  /\ proc' = [Disturb(proc, p) EXCEPT ![p].pc = "expire", ![p].writes = @ + 1]
  /\ UNCHANGED <<msg, now, nextId, budget, stamp>>

\* rLTrim(mbox, 0, 199)
StoreLTrim(p) ==
  /\ proc[p].op \in StoreOps /\ proc[p].pc = "ltrim"
  /\ LET l == proc[p].local IN
       /\ inbox' = rLTrim(inbox, l, 0, TRIM_LAST)
  /\ proc' = [Disturb(proc, p) EXCEPT ![p].pc = "expire", ![p].writes = @ + 1]
  /\ UNCHANGED <<msg, now, nextId, budget, stamp>>

\* rExpire(mbox, INBOX_TTL); storeMessage returns and the entry point
\* answers { ok: true }.
StoreExpire(p) ==
  /\ proc[p].op \in StoreOps /\ proc[p].pc = "expire"
  /\ LET l == proc[p].local IN
       /\ inbox' = rExpire(inbox, l, INBOX_TTL, now)
  /\ proc' = [Disturb(proc, p) EXCEPT ![p].pc = "done", ![p].status = 200,
                                      ![p].writes = @ + 1]
  /\ UNCHANGED <<msg, now, nextId, budget, stamp>>

storeMessage(p) == StoreLPush(p) \/ StoreLTrim(p) \/ StoreExpire(p)

\* POST /incoming-email (JSON from the Worker)
IncomingEmail(p) ==
  /\ Ready(p)
  /\ \E sent \in SentKeys :
       IF API_KEY # "" /\ (sent = "" \/ sent # API_KEY)
         THEN Refuse(p, "incoming", 401, FALSE)
         ELSE \E to \in Addrs, from \in Senders :
                IF to = <<>> \/ from = ""
                  THEN Refuse(p, "incoming", 400, ~ValidRecipient(to))
                  ELSE \E text \in Texts, idIn \in SuppliedIds \cup {nextId} :
                         StoreSet(p, "incoming", idIn, to, text)

\* POST /mailgun/inbound (form fields recipient, sender, subject, body-plain)
MailgunInbound(p) ==
  /\ Ready(p)
  /\ \E recipient \in Addrs, text \in Texts :
       LET to == toLowerCase(recipient) IN
       IF ~includesAt(to)
         THEN Refuse(p, "mailgun", 400, TRUE)
         ELSE StoreSet(p, "mailgun", nextId, to, text)

(* ---------------------------------------------------------------------- *)
(* GET /inbox/:local                                                       *)
(* ---------------------------------------------------------------------- *)
\* Index of the first element at or after i that is not the placeholder
\* (the loop skips "__init__" without a store call); Len + 1 when none is.
\* String.prototype.slice(a, b) for 0 <= a <= b
slice(s, a, b) == SubSeq(s, a + 1, Min(b, Len(s)))

\* preview: (m.text || m.raw || "").slice(0, 160)
previewOf(m) == slice(IF m.text # <<>> THEN m.text ELSE m.raw, 0, PREVIEW_LEN)

RECURSIVE NextListed(_, _)
NextListed(ids, i) ==
  IF i > Len(ids) \/ ids[i].id # INIT_PLACEHOLDER THEN i ELSE NextListed(ids, i + 1)

InboxParams == { <<"a">>, <<"b">> }

\* Faulty variant of InboxLRange: a missing directory key is answered 404.
InboxLRangeNotFound(p) ==
  /\ Ready(p)
  /\ \E local \in InboxParams :
       LET ids == rLRange(inbox, local, 0, LIST_LAST)
           j   == NextListed(ids, 1)
       IN  proc' = [proc EXCEPT ![p] =
                     [Idle EXCEPT !.op = "inbox", !.local = local, !.ids = ids, !.i = j,
                                  !.sawFresh = JustCreated(local),
                                  !.pc = IF j > Len(ids) THEN "done" ELSE "get",
                                  !.status = IF local \notin DOMAIN inbox THEN 404
                                             ELSE IF j > Len(ids) THEN 200 ELSE 0]]
  /\ UNCHANGED <<inbox, msg, now, nextId, budget, stamp>>

\* Faulty variant of InboxLRange: reading the mailbox renews its TTL.
InboxLRangeTouch(p) ==
  /\ Ready(p)
  /\ \E local \in InboxParams :
       LET ids == rLRange(inbox, local, 0, LIST_LAST)
           j   == NextListed(ids, 1)
       IN  /\ proc' = [proc EXCEPT ![p] =
                        [Idle EXCEPT !.op = "inbox", !.local = local, !.ids = ids, !.i = j,
                                     !.sawFresh = JustCreated(local),
                                     !.pc = IF j > Len(ids) THEN "done" ELSE "get",
                                     !.status = IF j > Len(ids) THEN 200 ELSE 0]]
           /\ inbox' = rExpire(inbox, local, INBOX_TTL, now)
  /\ UNCHANGED <<msg, now, nextId, budget, stamp>>

\* rLRange(mailboxKeyFromLocal(local), 0, 49)
InboxLRange(p) ==
  /\ Ready(p)
  /\ \E local \in InboxParams :
       LET ids == rLRange(inbox, local, 0, LIST_LAST)
           j   == NextListed(ids, 1)
       IN  proc' = [proc EXCEPT ![p] =
                     [Idle EXCEPT !.op = "inbox", !.local = local, !.ids = ids, !.i = j,
                                  !.sawFresh = JustCreated(local),
                                  !.pc = IF j > Len(ids) THEN "done" ELSE "get",
                                  !.status = IF j > Len(ids) THEN 200 ELSE 0]]
  /\ UNCHANGED <<inbox, msg, now, nextId, budget, stamp>>

\* Faulty variant of InboxGet: a missing record ends the listing with 500.
InboxGetStrict(p) ==
  /\ proc[p].op = "inbox" /\ proc[p].pc = "get"
  /\ LET ids == proc[p].ids
         raw == rGet(msg, ids[proc[p].i].id)
         j   == NextListed(ids, proc[p].i + 1)
     IN  IF raw.nil
           THEN proc' = [proc EXCEPT ![p].pc = "done", ![p].status = 500]
           ELSE proc' = [proc EXCEPT
                           ![p].out = Append(@, [id |-> raw.val.id, preview |-> previewOf(raw.val)]),
                           ![p].i = j,
                           ![p].pc = IF j > Len(ids) THEN "done" ELSE "get",
                           ![p].status = IF j > Len(ids) THEN 200 ELSE 0]
  /\ UNCHANGED <<inbox, msg, now, nextId, budget, stamp>>

\* One turn of the loop: rGet(messageKey(id)); a missing record is skipped.
\* After the last id the handler answers { ok: true, messages }.
InboxGet(p) ==
  /\ proc[p].op = "inbox" /\ proc[p].pc = "get"
  /\ LET ids == proc[p].ids
         raw == rGet(msg, ids[proc[p].i].id)
         out == IF raw.nil THEN proc[p].out
                ELSE Append(proc[p].out, [id |-> raw.val.id, preview |-> previewOf(raw.val)])
         j   == NextListed(ids, proc[p].i + 1)
     IN  proc' = [proc EXCEPT ![p].out = out, ![p].i = j,
                              ![p].pc = IF j > Len(ids) THEN "done" ELSE "get",
                              ![p].status = IF j > Len(ids) THEN 200 ELSE 0]
  /\ UNCHANGED <<inbox, msg, now, nextId, budget, stamp>>

handleInbox(p) == InboxLRange(p) \/ InboxGet(p)

(* ---------------------------------------------------------------------- *)
(* The deployment of src/server.js                                         *)
(* ---------------------------------------------------------------------- *)
Next ==
  \/ Tick
  \/ \E p \in Procs :
       \/ handleCreate(p)
       \/ IncomingEmail(p)
       \/ MailgunInbound(p)
       \/ storeMessage(p)
       \/ handleInbox(p)

Spec == Init /\ [][Next]_vars

\* The same deployment in a run where no mailbox is created.
NextIngest ==
  \/ Tick
  \/ \E p \in Procs :
       \/ IncomingEmail(p)
       \/ MailgunInbound(p)
       \/ storeMessage(p)
       \/ handleInbox(p)

SpecIngest == Init /\ [][NextIngest]_vars

(* ---------------------------------------------------------------------- *)
(* Retention: one mailbox filled past the cap of 200, one ingestion after  *)
(* the other                                                               *)
(* ---------------------------------------------------------------------- *)
\* The mailbox the retention runs append to.
RetentionTo == <<"a", "@", "d", ".", "g">>
RetentionLocal == splitAt0(toLowerCase(RetentionTo))

\* A directory of n ids left by earlier ingestions whose records have
\* expired; the ids and push stamps of earlier pushes are below 1.
OldDirectory(n) ==
  IF n = 0 THEN <<>>
  ELSE Put(<<>>, RetentionLocal,
           [items |-> [i \in 1..n |-> [id |-> 0 - i, seq |-> 1 - i]],
            exp |-> ExpiryAt(INBOX_TTL)])

\* Directory sizes the retention runs start from: absent, one below the
\* cap, at the cap.
OldSizes == {0, TRIM_LAST, TRIM_LAST + 1}

InitFrom(sizes, appends) ==
  /\ \E n \in sizes : inbox = OldDirectory(n)
  /\ msg = <<>>
  /\ now = 0
  /\ proc = [p \in Procs |-> Idle]
  /\ nextId = 1
  /\ budget = appends
  /\ stamp = 0

InitRetention == InitFrom(OldSizes, RetentionAppends)

\* POST /incoming-email with the API key, a sender and a fresh id.
RetentionAppend(p) ==
  /\ Ready(p)
  /\ \E text \in Texts : StoreSet(p, "incoming", nextId, RetentionTo, text)

\* The handler instance that serves the sequential run.
Sequential == "p1"

NextRetention == RetentionAppend(Sequential) \/ storeMessage(Sequential)

SpecRetention == InitRetention /\ [][NextRetention]_vars

(* ---------------------------------------------------------------------- *)
(* The first /push route of src/server.js (raw MIME from the Worker)       *)
(* ---------------------------------------------------------------------- *)
\* The route up to its first store command: the api_key check, the raw file
\* check, to and local, the parsed message (no attachment in the mails of
\* the model, so no attachment key is written) and
\* redis.set(msgKey(id), msg, { ex: MSG_TTL }).
PushSet(p) ==
  /\ Ready(p)
  /\ \E api_key \in SentKeys :
       IF api_key = "" \/ api_key # API_KEY
         THEN Refuse(p, "push", 401, FALSE)
         ELSE \E raw \in BOOLEAN :
           IF ~raw
             THEN Refuse(p, "push", 400, FALSE)
             ELSE \E addr \in Addrs, text \in Texts :
               LET to    == toLowerCase(addr)
                   local == splitAt0(to)
               IN  IF local = <<>>
                     THEN Refuse(p, "push", 400, TRUE)
                     ELSE /\ budget > 0
                          /\ budget' = budget - 1
                          /\ nextId' = nextId + 1
                          /\ msg' = rSetEX(msg, nextId,
                                           [id |-> nextId,
                                            to |-> local \o <<"@">> \o DOMAIN_NAME,
                                            text |-> text],
                                           MSG_TTL, now)
                          /\ proc' = [Disturb(proc, p) EXCEPT ![p] =
                                        [Idle EXCEPT !.op = "push", !.pc = "lpush",
                                                     !.local = local, !.id = nextId,
                                                     !.writes = 1, !.didSet = TRUE,
                                                     !.badTo = ~ValidRecipient(to)]]
                          /\ UNCHANGED <<inbox, now, stamp>>

\* redis.lpush(inboxKey(local), id)
PushLPush(p) ==
  /\ proc[p].op = "push" /\ proc[p].pc = "lpush"
  /\ LET l == proc[p].local IN
       /\ inbox' = rLPush(inbox, l, Elem(proc[p].id))
  /\ stamp' = stamp + 1
  /\ proc' = [Disturb(proc, p) EXCEPT ![p].pc = "expire", ![p].writes = @ + 1,
                                      ![p].didPush = TRUE,
                                      ![p].pre = RemainingTTL(inbox, proc[p].local)]
  /\ UNCHANGED <<msg, now, nextId, budget>>

\* redis.expire(inboxKey(local), INBOX_TTL); res.json({ ok: true, id })
PushExpire(p) ==
  /\ proc[p].op = "push" /\ proc[p].pc = "expire"
  /\ inbox' = rExpire(inbox, proc[p].local, INBOX_TTL, now)
  /\ proc' = [Disturb(proc, p) EXCEPT ![p].pc = "done", ![p].status = 200,
                                      ![p].writes = @ + 1]
  /\ UNCHANGED <<msg, now, nextId, budget, stamp>>

\* Runs of the route on a store whose directory of RetentionLocal is absent,
\* one id below the cap, or at the cap.
InitPush == InitFrom(OldSizes, MaxWrites)

NextPush == \E p \in Procs : PushSet(p) \/ PushLPush(p) \/ PushExpire(p)

SpecPush == InitPush /\ [][NextPush]_vars

(* ---------------------------------------------------------------------- *)
(* The ioredis variant (src/unnamed/part_005): storeMessage as a pipeline  *)
(* ---------------------------------------------------------------------- *)
\* An ioredis pipeline sends its commands in one batch; the server runs them
\* in the order queued, and commands of other connections can run between
\* them (a pipeline is not a transaction).  The list of this variant holds
\* the JSON records; an element of the model carries the record's id.

\* normalizeEmail: decodeURIComponent(String(str).trim().toLowerCase()); the
\* addresses of the model hold no blank and no "%".
normalizeEmail(str) == toLowerCase(str)

\* isValidEmail: /^[^\s@]+@[^\s@]+\.[^\s@]+$/
isValidEmail(email) ==
  \E i \in 1..Len(email), j \in 1..Len(email) :
     /\ email[i] = "@" /\ email[j] = "."
     /\ 1 < i /\ i + 1 < j /\ j < Len(email)
     /\ \A k \in 1..Len(email) : k # i => email[k] \notin {"@", " "}

\* mailboxKey: `mailbox:${addr.toLowerCase()}`
mailboxKey(addr) == toLowerCase(addr)

\* POST /create: generateAddress(), then redis.expire(key, INBOX_TTL) alone.
CreateRoute(p) ==
  /\ Ready(p)
  /\ \E local \in CreateLocals :
       LET key == mailboxKey(local \o <<"@">> \o DOMAIN_NAME) IN
       /\ inbox' = rExpire(inbox, key, INBOX_TTL, now)
       /\ proc' = [(IF inbox' = inbox THEN Settle(proc, p) ELSE Disturb(proc, p))
                     EXCEPT ![p] = [Idle EXCEPT !.op = "create", !.pc = "done",
                                                !.local = key, !.status = 200]]
  /\ UNCHANGED <<msg, now, nextId, budget, stamp>>

\* POST /_test/push up to the first command of the pipeline:
\* pipe.lpush(listKey, JSON.stringify(record))
TestPush(p) ==
  /\ Ready(p)
  /\ \E addr \in Addrs, text \in Texts :
       LET to == normalizeEmail(addr) IN
       IF ~isValidEmail(to)
         THEN Refuse(p, "testpush", 400, TRUE)
         ELSE /\ budget > 0
              /\ budget' = budget - 1
              /\ nextId' = nextId + 1
              /\ inbox' = rLPush(inbox, mailboxKey(to), Elem(nextId))
              /\ stamp' = stamp + 1
              /\ proc' = [Disturb(proc, p) EXCEPT ![p] =
                            [Idle EXCEPT !.op = "testpush", !.pc = "ltrim",
                                         !.local = mailboxKey(to), !.id = nextId,
                                         !.text = text, !.writes = 1,
                                         !.didPush = TRUE,
                                         !.pre = RemainingTTL(inbox, mailboxKey(to))]]
              /\ UNCHANGED <<msg, now>>

\* pipe.ltrim(listKey, 0, 199)
PipeLTrim(p) ==
  /\ proc[p].op = "testpush" /\ proc[p].pc = "ltrim"
  /\ LET l == proc[p].local IN
       /\ inbox' = rLTrim(inbox, l, 0, TRIM_LAST)
  /\ proc' = [Disturb(proc, p) EXCEPT ![p].pc = "expire", ![p].writes = @ + 1]
  /\ UNCHANGED <<msg, now, nextId, budget, stamp>>

\* pipe.expire(listKey, INBOX_TTL)
PipeExpire(p) ==
  /\ proc[p].op = "testpush" /\ proc[p].pc = "expire"
  /\ inbox' = rExpire(inbox, proc[p].local, INBOX_TTL, now)
  /\ proc' = [Disturb(proc, p) EXCEPT ![p].pc = "set", ![p].writes = @ + 1]
  /\ UNCHANGED <<msg, now, nextId, budget, stamp>>

\* pipe.set(mKey, JSON.stringify(record), "EX", MSG_TTL); exec() resolves and
\* the route answers { ok: true, stored: rec }.
PipeSet(p) ==
  /\ proc[p].op = "testpush" /\ proc[p].pc = "set"
  /\ msg' = rSetEX(msg, proc[p].id,
                   [id |-> proc[p].id, to |-> proc[p].local, text |-> proc[p].text],
                   MSG_TTL, now)
  /\ proc' = [Disturb(proc, p) EXCEPT ![p].pc = "done", ![p].status = 200,
                                      ![p].writes = @ + 1, ![p].didSet = TRUE]
  /\ UNCHANGED <<inbox, now, nextId, budget, stamp>>

storeMessagePipeline(p) == PipeLTrim(p) \/ PipeExpire(p) \/ PipeSet(p)

NextPipeline ==
  \/ Tick
  \/ \E p \in Procs : CreateRoute(p) \/ TestPush(p) \/ storeMessagePipeline(p)

SpecPipeline == Init /\ [][NextPipeline]_vars

(* ---------------------------------------------------------------------- *)
(* Properties                                                              *)
(* ---------------------------------------------------------------------- *)
\* The elements of the directory of l, newest first (none for a missing key).
DirectoryOf(l) == rLRange(inbox, l, 0, -1)

\* No request is between two of its store commands.
Quiescent == \A p \in Procs : Ready(p)

Ingestions == {"incoming", "mailgun"}

\* C1 (SpecRetention): bounded retention.  Whenever the sequential run is
\* between two ingestions, the directory holds at most 200 ids, exactly 200
\* once 200 ingestions have completed (whatever the directory held at the
\* start), and its i-th element is the i-th most recent push: the ids kept
\* are the most recently appended ones, newest first, and every appended id
\* is the one its ingestion drew.
C1_BoundedRetention ==
  Quiescent =>
    LET items == DirectoryOf(RetentionLocal) IN
      /\ Len(items) <= TRIM_LAST + 1
      /\ (stamp >= TRIM_LAST + 1 => Len(items) = TRIM_LAST + 1)
      /\ \A i \in 1..Len(items) :
           /\ items[i].seq = stamp - i + 1
           /\ (items[i].seq >= 1 => items[i].id = items[i].seq)

\* More than 200 ingestions have completed: an appended id has been trimmed.
C1_Witness ==
  /\ Quiescent
  /\ stamp > TRIM_LAST + 1
  /\ Len(DirectoryOf(RetentionLocal)) = TRIM_LAST + 1
  /\ DirectoryOf(RetentionLocal)[TRIM_LAST + 1].seq > 1

\* C2 as stated (SpecPush), taken at the states where no request is between
\* two store commands: every directory holds at most 200 elements.
C2_LengthAtMost200 ==
  Quiescent => \A l \in DOMAIN inbox : Len(inbox[l].items) <= TRIM_LAST + 1

\* C3 (Spec): newest-first ordering.  In every directory the elements stand
\* in the reverse order of their pushes: an id pushed later (as the id of a
\* message appended after another message's ingestion completed is) is
\* listed before every id pushed earlier that is still in the directory.
C3_NewestFirst ==
  \A l \in DOMAIN inbox :
    \A i, j \in 1..Len(inbox[l].items) :
      i < j => inbox[l].items[i].seq > inbox[l].items[j].seq

\* An ingestion B has just completed undisturbed; the directory lists its
\* id first and, after it, the id of an ingestion A that completed earlier.
C3_Witness ==
  \E p \in Procs :
    /\ proc[p].op \in Ingestions /\ proc[p].pc = "done" /\ proc[p].status = 200
    /\ proc[p].clean
    /\ \A q \in Procs \ {p} : proc[q].op = "idle"
    /\ Len(DirectoryOf(proc[p].local)) >= 2
    /\ DirectoryOf(proc[p].local)[1].id = proc[p].id
    /\ DirectoryOf(proc[p].local)[2].id # INIT_PLACEHOLDER

\* C4 as stated (SpecIngest): when an ingestion to a valid recipient
\* completes, the directory's remaining TTL equals INBOX_TTL, whatever
\* remaining TTL the directory had before the append.
C4_TtlFullAfterAppend ==
  \A p \in Procs :
    (proc[p].op \in Ingestions /\ proc[p].pc = "done" /\ proc[p].status = 200
       /\ ~proc[p].badTo)
      => RemainingTTL(inbox, proc[p].local) = INBOX_TTL

\* C5 as stated (SpecPipeline): an ingestion that has pushed into the
\* directory has written its message record before.
C5_RecordBeforePush ==
  \A p \in Procs : proc[p].didPush => proc[p].didSet

\* What handleInbox answers for the ids it read when every record it looks
\* up is looked up in the store as it is now.
RECURSIVE Listing(_)
Listing(ids) ==
  IF ids = <<>> THEN <<>>
  ELSE LET id == Head(ids).id IN
       (IF id = INIT_PLACEHOLDER \/ id \notin DOMAIN msg
          THEN <<>>
          ELSE << [id |-> msg[id].val.id, preview |-> previewOf(msg[id].val)] >>)
       \o Listing(Tail(ids))

\* C6 (Spec): dangling reference tolerance.  Every listing ends with status
\* 200, and a listing during which the store did not change answers, in
\* directory order, exactly the ids of the range it read whose record is
\* present: an id whose record is gone is left out, every other id is kept.
C6_DanglingTolerated ==
  \A p \in Procs :
    (proc[p].op = "inbox" /\ proc[p].pc = "done")
      => /\ proc[p].status = 200
         /\ (proc[p].clean => proc[p].out = Listing(proc[p].ids))

\* A listing has completed over a range holding an id whose record has
\* expired and an id whose record is present, and it answered a message.
C6_Witness ==
  \E p \in Procs :
    /\ proc[p].op = "inbox" /\ proc[p].pc = "done" /\ proc[p].clean
    /\ \E i, j \in 1..Len(proc[p].ids) :
         /\ proc[p].ids[i].id # INIT_PLACEHOLDER
         /\ proc[p].ids[i].id \notin DOMAIN msg
         /\ proc[p].ids[j].id \in DOMAIN msg
    /\ Len(proc[p].out) >= 1

\* C7 (Spec): create-then-empty-list.  A listing of local that reads the
\* directory right after an undisturbed handleCreate of local answered (no
\* store command in between) is complete at once, with status 200 and no
\* message.
C7_CreateThenEmpty ==
  \A p \in Procs :
    (proc[p].op = "inbox" /\ proc[p].sawFresh)
      => /\ proc[p].pc = "done"
         /\ proc[p].status = 200
         /\ proc[p].out = <<>>

\* Such a listing has answered, of a mailbox whose directory held message
\* ids before the creation.
C7_Witness ==
  \E p, q \in Procs :
    /\ proc[p].op = "inbox" /\ proc[p].sawFresh /\ proc[p].pc = "done"
    /\ proc[q].op = "create" /\ proc[q].pc = "done" /\ proc[q].clean
    /\ proc[q].local = proc[p].local
    /\ proc[q].pre > 0

\* C8 as stated (Spec): after handleCreate has completed undisturbed, the
\* directory key of local exists, holds zero elements and has a remaining
\* TTL of INBOX_TTL.
C8_CreatedEntryExists ==
  \A p \in Procs :
    (proc[p].op = "create" /\ proc[p].pc = "done" /\ proc[p].clean)
      => EntryView(proc[p].local) = [ex |-> TRUE, items |-> <<>>, ttl |-> INBOX_TTL]

\* C9 (Spec): idempotent reset.  After handleCreate has completed
\* undisturbed, the store holds the same thing for local whatever it held
\* before (message ids or not, a first or a repeated creation): no
\* directory key, hence no message id.
C9_IdempotentReset ==
  \A p \in Procs :
    (proc[p].op = "create" /\ proc[p].pc = "done" /\ proc[p].clean)
      => /\ CountIds(DirectoryOf(proc[p].local)) = 0
         /\ EntryView(proc[p].local) = [ex |-> FALSE, items |-> <<>>, ttl |-> -2]

\* handleCreate has completed undisturbed on a mailbox whose directory held
\* message ids.
C9_Witness ==
  \E p \in Procs :
    /\ proc[p].op = "create" /\ proc[p].pc = "done" /\ proc[p].clean
    /\ proc[p].pre > 0

\* C10 as stated (Spec): an ingestion whose recipient is not a valid
\* address fails and has issued no store write.
C10_InvalidRecipientStoresNothing ==
  \A p \in Procs :
    (proc[p].op \in Ingestions /\ proc[p].badTo)
      => /\ proc[p].writes = 0
         /\ proc[p].status # 200

(* ---------------------------------------------------------------------- *)
(* The SMTP ingest of src/unnamed/part_002 (SMTPServer.onData)             *)
(* ---------------------------------------------------------------------- *)
\* smtp-server answers 250 to the sending host when onData calls callback()
\* and a 4xx error (450 unless the error carries a code) when it calls
\* callback(e).
\*
\* onData up to its first store command: to is the lowercased first
\* recipient of the parsed mail ("" when the mail has none);
\* `if (!to) return callback()`; otherwise id, msg, local and
\* redis.set(msgKey(id), msg, "EX", MSG_TTL), which the store may reject.
SmtpData(p) ==
  /\ Ready(p)
  /\ \E addr \in Addrs, text \in Texts, rejected \in BOOLEAN :
       LET to    == toLowerCase(addr)
           local == splitAt0(to)
       IN  IF to = <<>>
             THEN Refuse(p, "smtp", 250, TRUE)
             ELSE IF rejected
               THEN Refuse(p, "smtp", 450, FALSE)
               ELSE /\ budget > 0
                    /\ budget' = budget - 1
                    /\ nextId' = nextId + 1
                    /\ msg' = rSetEX(msg, nextId, [id |-> nextId, to |-> to, text |-> text],
                                     MSG_TTL, now)
                    /\ proc' = [Disturb(proc, p) EXCEPT ![p] =
                                  [Idle EXCEPT !.op = "smtp", !.pc = "lpush",
                                               !.local = local, !.id = nextId,
                                               !.writes = 1, !.didSet = TRUE]]
                    /\ UNCHANGED <<inbox, now, stamp>>

\* redis.lpush(inboxKey(local), id)
SmtpLPush(p) ==
  /\ proc[p].op = "smtp" /\ proc[p].pc = "lpush"
  /\ inbox' = rLPush(inbox, proc[p].local, Elem(proc[p].id))
  /\ stamp' = stamp + 1
  /\ proc' = [Disturb(proc, p) EXCEPT ![p].pc = "ltrim", ![p].writes = @ + 1,
                                      ![p].didPush = TRUE,
                                      ![p].pre = RemainingTTL(inbox, proc[p].local)]
  /\ UNCHANGED <<msg, now, nextId, budget>>

\* redis.ltrim(inboxKey(local), 0, 199)
SmtpLTrim(p) ==
  /\ proc[p].op = "smtp" /\ proc[p].pc = "ltrim"
  /\ inbox' = rLTrim(inbox, proc[p].local, 0, TRIM_LAST)
  /\ proc' = [Disturb(proc, p) EXCEPT ![p].pc = "expire", ![p].writes = @ + 1]
  /\ UNCHANGED <<msg, now, nextId, budget, stamp>>

\* redis.expire(inboxKey(local), INBOX_TTL); callback()
SmtpExpire(p) ==
  /\ proc[p].op = "smtp" /\ proc[p].pc = "expire"
  /\ inbox' = rExpire(inbox, proc[p].local, INBOX_TTL, now)
  /\ proc' = [Disturb(proc, p) EXCEPT ![p].pc = "done", ![p].status = 250,
                                      ![p].writes = @ + 1]
  /\ UNCHANGED <<msg, now, nextId, budget, stamp>>

\* The store rejects the command onData is waiting for: catch (e),
\* callback(e).
SmtpStoreError(p) ==
  /\ proc[p].op = "smtp" /\ proc[p].pc \in {"lpush", "ltrim", "expire"}
  /\ proc' = [proc EXCEPT ![p].pc = "done", ![p].status = 450]
  /\ UNCHANGED <<inbox, msg, now, nextId, budget, stamp>>

onData(p) ==
  SmtpData(p) \/ SmtpLPush(p) \/ SmtpLTrim(p) \/ SmtpExpire(p) \/ SmtpStoreError(p)

NextSmtp == Tick \/ \E p \in Procs : onData(p)

SpecSmtp == Init /\ [][NextSmtp]_vars

\* C11 as stated (SpecSmtp): writes are never silently dropped.  Whenever
\* onData has acknowledged a mail to the sending host as accepted, the
\* message record and its directory entry have been written, and the mail
\* had a usable recipient.
C11_AckImpliesWritten ==
  \A p \in Procs :
    (proc[p].op = "smtp" /\ proc[p].pc = "done" /\ proc[p].status = 250)
      => /\ proc[p].didSet
         /\ proc[p].didPush
         /\ ~proc[p].badTo

(* ---------------------------------------------------------------------- *)
(* The readers of src/server.js on a store that may fail or stay silent    *)
(* ---------------------------------------------------------------------- *)
\* rLRange and rGet await the Upstash client and set no timer.  A call ends
\* when the store answers (InboxLRange, InboxGet, MessageGet) or when the
\* client rejects (the Error actions); while neither happens the handler
\* stays at its await.
\*
\* handleInbox: rLRange rejects; catch (e), 500.
InboxLRangeError(p) ==
  /\ Ready(p)
  /\ \E local \in InboxParams :
       proc' = [proc EXCEPT ![p] =
                 [Idle EXCEPT !.op = "inbox", !.local = local, !.pc = "done",
                              !.status = 500, !.cause = "error"]]
  /\ UNCHANGED <<inbox, msg, now, nextId, budget, stamp>>

\* handleInbox: the rGet of the loop rejects; catch (e), 500.
InboxGetError(p) ==
  /\ proc[p].op = "inbox" /\ proc[p].pc = "get"
  /\ proc' = [proc EXCEPT ![p].pc = "done", ![p].status = 500, ![p].cause = "error"]
  /\ UNCHANGED <<inbox, msg, now, nextId, budget, stamp>>

\* Message ids a client asks for: the newest ids drawn so far and the next
\* one, which no record has yet.
MessageParams == { i \in 1..nextId : i + 2 >= nextId } \cup SuppliedIds

\* handleMessage up to the call of rGet(messageKey(id)): the id parameter
\* is trimmed and an empty one is answered 400.
MessageCall(p) ==
  /\ Ready(p)
  /\ \E given \in BOOLEAN :
       IF ~given
         THEN proc' = [proc EXCEPT ![p] =
                        [Idle EXCEPT !.op = "message", !.pc = "done", !.status = 400]]
         ELSE \E id \in MessageParams :
                proc' = [proc EXCEPT ![p] =
                          [Idle EXCEPT !.op = "message", !.pc = "get", !.id = id]]
  /\ UNCHANGED <<inbox, msg, now, nextId, budget, stamp>>

\* Faulty variant of MessageGet: a missing record reaches the catch, 500.
MessageGetThrows(p) ==
  /\ proc[p].op = "message" /\ proc[p].pc = "get"
  /\ LET raw == rGet(msg, proc[p].id) IN
       IF raw.nil
         THEN proc' = [proc EXCEPT ![p].pc = "done", ![p].status = 500,
                                   ![p].cause = "answer"]
         ELSE proc' = [proc EXCEPT ![p].pc = "done", ![p].status = 200,
                                   ![p].cause = "answer",
                                   ![p].out = << [id |-> raw.val.id, to |-> raw.val.to,
                                                  body_plain |-> raw.val.text] >>]
  /\ UNCHANGED <<inbox, msg, now, nextId, budget, stamp>>

\* rGet answers: no record is 404 not_found; a record is answered with
\* id, to and body_plain: m.text.
MessageGet(p) ==
  /\ proc[p].op = "message" /\ proc[p].pc = "get"
  /\ LET raw == rGet(msg, proc[p].id) IN
       IF raw.nil
         THEN proc' = [proc EXCEPT ![p].pc = "done", ![p].status = 404,
                                   ![p].cause = "answer"]
         ELSE proc' = [proc EXCEPT ![p].pc = "done", ![p].status = 200,
                                   ![p].cause = "answer",
                                   ![p].out = << [id |-> raw.val.id, to |-> raw.val.to,
                                                  body_plain |-> raw.val.text] >>]
  /\ UNCHANGED <<inbox, msg, now, nextId, budget, stamp>>

\* rGet rejects; catch (e), 500.
MessageGetError(p) ==
  /\ proc[p].op = "message" /\ proc[p].pc = "get"
  /\ proc' = [proc EXCEPT ![p].pc = "done", ![p].status = 500, ![p].cause = "error"]
  /\ UNCHANGED <<inbox, msg, now, nextId, budget, stamp>>

handleMessage(p) == MessageCall(p) \/ MessageGet(p) \/ MessageGetError(p)

handleInboxFaulty(p) == handleInbox(p) \/ InboxLRangeError(p) \/ InboxGetError(p)

\* The mailbox the readers are run on: two mails were ingested for
\* a@d.g at time 0 and nothing else happened.
InitReaders ==
  /\ inbox = rExpire(rLPush(rLPush(<<>>, <<"a">>, [id |-> 1, seq |-> 1]),
                            <<"a">>, [id |-> 2, seq |-> 2]),
                     <<"a">>, INBOX_TTL, 0)
  /\ msg = rSetEX(rSetEX(<<>>, 1, [id |-> 1, to |-> <<"a", "@">> \o DOMAIN_NAME,
                                   text |-> <<"t", "1">>, raw |-> <<>>], MSG_TTL, 0),
                  2, [id |-> 2, to |-> <<"a", "@">> \o DOMAIN_NAME, text |-> <<"t", "1">>,
                      raw |-> <<>>],
                  MSG_TTL, 0)
  /\ now = 0
  /\ proc = [p \in Procs |-> Idle]
  /\ nextId = 3
  /\ budget = 0
  /\ stamp = 2

NextReaders == Tick \/ \E p \in Procs : handleInboxFaulty(p) \/ handleMessage(p)

\* Time passes whatever the store does; nothing in the handlers is
\* scheduled by the process itself (they set no timer), so no other step is
\* fair.
SpecReaders == InitReaders /\ [][NextReaders]_vars /\ WF_vars(Tick)

\* A reader of src/server.js is waiting for the store.
Awaiting(p) == proc[p].op \in {"inbox", "message"} /\ proc[p].pc = "get"

\* C12 as stated (SpecReaders): readers never hang.  A listing or a message
\* fetch that is waiting for a store call eventually answers its caller,
\* whether or not the store answers the call.
C12_ReadersRespond ==
  \A p \in Procs : Awaiting(p) ~> (proc[p].pc = "done")

\* C14 as stated (SpecReaders): store failure on the read path degrades to
\* an empty result.  A listing one of whose store calls was rejected answers
\* 200 with no message.
C14_FailureGivesEmptyListing ==
  \A p \in Procs :
    (proc[p].op = "inbox" /\ proc[p].pc = "done" /\ proc[p].cause = "error")
      => /\ proc[p].status = 200
         /\ proc[p].out = <<>>

(* ---------------------------------------------------------------------- *)
(* The readers of the ioredis variant (src/unnamed/part_005)               *)
(* ---------------------------------------------------------------------- *)
\* withTimeout(p, 1500) races the store call against a timer that rejects
\* with "TIMEOUT": whichever ends first decides, the other is ignored.  The
\* 1.5 s are far below one tick of the TTL clock, so the timer may fire at
\* any moment the call is still pending.
\*
\* GET /messages/:mailbox up to `withTimeout(redis.lrange(key, 0, 49), 1500)`.
MessagesCall(p) ==
  /\ Ready(p)
  /\ \E mailbox \in Addrs :
       LET addr == normalizeEmail(mailbox) IN
       IF ~isValidEmail(addr)
         THEN proc' = [proc EXCEPT ![p] =
                        [Idle EXCEPT !.op = "list", !.pc = "done", !.status = 400]]
         ELSE proc' = [proc EXCEPT ![p] =
                        [Idle EXCEPT !.op = "list", !.pc = "lrange",
                                     !.local = mailboxKey(addr), !.timer = TRUE]]
  /\ UNCHANGED <<inbox, msg, now, nextId, budget, stamp>>

\* The store answers first: { mailbox, count, items } with the records of
\* the list (count 0 and no item when the list is empty or missing).
MessagesLRange(p) ==
  /\ proc[p].op = "list" /\ proc[p].pc = "lrange"
  /\ proc' = [proc EXCEPT ![p].pc = "done", ![p].status = 200, ![p].timer = FALSE,
                          ![p].cause = "answer",
                          ![p].out = rLRange(inbox, proc[p].local, 0, LIST_LAST)]
  /\ UNCHANGED <<inbox, msg, now, nextId, budget, stamp>>

\* Faulty variant of MessagesTimeout: the TIMEOUT is rethrown like any other
\* error and the outer catch answers 500.
MessagesTimeoutRethrown(p) ==
  /\ proc[p].op = "list" /\ proc[p].pc = "lrange" /\ proc[p].timer
  /\ proc' = [proc EXCEPT ![p].pc = "done", ![p].status = 500, ![p].timer = FALSE,
                          ![p].cause = "timeout"]
  /\ UNCHANGED <<inbox, msg, now, nextId, budget, stamp>>

\* The timer fires first: e.message === "TIMEOUT",
\* res.json({ mailbox, count: 0, items: [] }).
MessagesTimeout(p) ==
  /\ proc[p].op = "list" /\ proc[p].pc = "lrange" /\ proc[p].timer
  /\ proc' = [proc EXCEPT ![p].pc = "done", ![p].status = 200, ![p].timer = FALSE,
                          ![p].cause = "timeout", ![p].out = <<>>]
  /\ UNCHANGED <<inbox, msg, now, nextId, budget, stamp>>

\* The call rejects first with another error: `throw e`, outer catch, 500.
MessagesError(p) ==
  /\ proc[p].op = "list" /\ proc[p].pc = "lrange"
  /\ proc' = [proc EXCEPT ![p].pc = "done", ![p].status = 500, ![p].timer = FALSE,
                          ![p].cause = "error"]
  /\ UNCHANGED <<inbox, msg, now, nextId, budget, stamp>>

\* GET /message/:id up to `withTimeout(redis.get(messageKey(id)), 1500)`.
FetchCall(p) ==
  /\ Ready(p)
  /\ \E id \in MessageParams :
       proc' = [proc EXCEPT ![p] =
                 [Idle EXCEPT !.op = "fetch", !.pc = "get", !.id = id, !.timer = TRUE]]
  /\ UNCHANGED <<inbox, msg, now, nextId, budget, stamp>>

\* The store answers first: 404 when there is no record, else the record.
FetchGet(p) ==
  /\ proc[p].op = "fetch" /\ proc[p].pc = "get"
  /\ LET val == rGet(msg, proc[p].id) IN
       proc' = [proc EXCEPT ![p].pc = "done", ![p].timer = FALSE, ![p].cause = "answer",
                            ![p].status = IF val.nil THEN 404 ELSE 200,
                            ![p].out = IF val.nil THEN <<>> ELSE <<val.val>>]
  /\ UNCHANGED <<inbox, msg, now, nextId, budget, stamp>>

\* The timer fires first: res.status(504).json({ error: "Timeout" }).
FetchTimeout(p) ==
  /\ proc[p].op = "fetch" /\ proc[p].pc = "get" /\ proc[p].timer
  /\ proc' = [proc EXCEPT ![p].pc = "done", ![p].status = 504, ![p].timer = FALSE,
                          ![p].cause = "timeout"]
  /\ UNCHANGED <<inbox, msg, now, nextId, budget, stamp>>

\* The call rejects first with another error: 500.
FetchError(p) ==
  /\ proc[p].op = "fetch" /\ proc[p].pc = "get"
  /\ proc' = [proc EXCEPT ![p].pc = "done", ![p].status = 500, ![p].timer = FALSE,
                          ![p].cause = "error"]
  /\ UNCHANGED <<inbox, msg, now, nextId, budget, stamp>>

getMessages(p) ==
  MessagesCall(p) \/ MessagesLRange(p) \/ MessagesTimeout(p) \/ MessagesError(p)

getMessage(p) == FetchCall(p) \/ FetchGet(p) \/ FetchTimeout(p) \/ FetchError(p)

NextPipelineReaders ==
  \/ Tick
  \/ \E p \in Procs : TestPush(p) \/ storeMessagePipeline(p) \/ getMessages(p) \/ getMessage(p)

SpecPipelineReaders == Init /\ [][NextPipelineReaders]_vars

\* C13 (SpecPipelineReaders): timeout degradation.  A listing whose store
\* call timed out answers 200 with no item; a fetch whose store call timed
\* out answers 504; and 504 is the answer of a timed-out fetch only: a fetch
\* the store answered is 200 or 404, one the store rejected is 500.
C13_TimeoutDegradation ==
  \A p \in Procs :
    (proc[p].op \in {"list", "fetch"} /\ proc[p].pc = "done")
      => /\ (proc[p].op = "list" /\ proc[p].cause = "timeout")
              => (proc[p].status = 200 /\ proc[p].out = <<>>)
         /\ (proc[p].op = "fetch" /\ proc[p].cause = "timeout") => proc[p].status = 504
         /\ (proc[p].op = "fetch" /\ proc[p].cause = "answer") => proc[p].status \in {200, 404}
         /\ (proc[p].op = "fetch" /\ proc[p].cause = "error") => proc[p].status = 500

\* A listing has timed out on a mailbox whose list holds a record, and a
\* fetch has timed out on an id whose record is present.
C13_Witness ==
  \E p, q \in Procs :
    /\ proc[p].op = "list" /\ proc[p].pc = "done" /\ proc[p].cause = "timeout"
    /\ Len(DirectoryOf(proc[p].local)) > 0
    /\ proc[q].op = "fetch" /\ proc[q].pc = "done" /\ proc[q].cause = "timeout"
    /\ proc[q].id \in DOMAIN msg

(* ---------------------------------------------------------------------- *)
(* The first server of src/unnamed/part_000 (lines 1-120): SMTP ingest     *)
(* into mailbox:<address> lists that hold the records themselves           *)
(* ---------------------------------------------------------------------- *)
\* The recipient of a mail without one.
UNKNOWN == <<"u", "n", "k", "n", "o", "w", "n">>

\* onData up to its first store command: to, key, record and
\* redis.lpush(key, JSON.stringify(record)).
ListLPush(p) ==
  /\ Ready(p)
  /\ budget > 0
  /\ \E addr \in Addrs :
       LET to  == toLowerCase(IF addr = <<>> THEN UNKNOWN ELSE addr)
       IN  /\ inbox' = rLPush(inbox, to, Elem(nextId))
           /\ proc' = [Disturb(proc, p) EXCEPT ![p] =
                         [Idle EXCEPT !.op = "smtplist", !.pc = "ltrim", !.local = to,
                                      !.id = nextId, !.writes = 1, !.didPush = TRUE,
                                      !.pre = RemainingTTL(inbox, to)]]
  /\ budget' = budget - 1
  /\ nextId' = nextId + 1
  /\ stamp' = stamp + 1
  /\ UNCHANGED <<msg, now>>

\* redis.ltrim(key, 0, 199); callback()
ListLTrim(p) ==
  /\ proc[p].op = "smtplist" /\ proc[p].pc = "ltrim"
  /\ inbox' = rLTrim(inbox, proc[p].local, 0, TRIM_LAST)
  /\ proc' = [Disturb(proc, p) EXCEPT ![p].pc = "done", ![p].status = 250,
                                      ![p].writes = @ + 1]
  /\ UNCHANGED <<msg, now, nextId, budget, stamp>>

\* GET /messages/:mailbox: redis.lrange(key, 0, 49), the parsed items.
ListRead(p) ==
  /\ Ready(p)
  /\ \E mailbox \in Addrs :
       proc' = [proc EXCEPT ![p] =
                 [Idle EXCEPT !.op = "list", !.pc = "done", !.status = 200,
                              !.local = toLowerCase(mailbox),
                              !.out = rLRange(inbox, toLowerCase(mailbox), 0, LIST_LAST)]]
  /\ UNCHANGED <<inbox, msg, now, nextId, budget, stamp>>

NextList == Tick \/ \E p \in Procs : ListLPush(p) \/ ListLTrim(p) \/ ListRead(p)

\* Time passes, and the store answers every command this server issues, so
\* a handler that has pushed goes on to trim and to answer.
SpecList ==
  /\ Init /\ [][NextList]_vars
  /\ WF_vars(Tick)
  /\ \A p \in Procs : WF_vars(ListLTrim(p))

\* Every key a mailbox directory can have in the model, and every message id.
DirectoryKeys == { toLowerCase(a) : a \in Addrs } \cup { splitAt0(toLowerCase(a)) : a \in Addrs }
                   \cup {UNKNOWN}
RecordIds == 1..(MaxWrites + 1) \cup SuppliedIds

\* The clock of the model stops at MaxClock: a key whose deadline lies
\* beyond it is on its way out.
Leaving(f, k) == k \in DOMAIN f /\ f[k].exp.has /\ f[k].exp.at > MaxClock

\* C15 as stated (SpecList): automatic expiry.  The writes of a run are
\* finitely many, so every directory entry present at some moment
\* eventually is gone (or carries a deadline beyond the last instant of the
\* model), and so is every message record.
C15_EverythingExpires ==
  /\ \A l \in DirectoryKeys :
       (l \in DOMAIN inbox) ~> (l \notin DOMAIN inbox \/ Leaving(inbox, l))
  /\ \A i \in RecordIds :
       (i \in DOMAIN msg) ~> (i \notin DOMAIN msg \/ Leaving(msg, i))

\* C16 as stated (Spec): message records are immutable.  No step changes
\* the content stored under a message id that holds a record before and
\* after the step.
C16_RecordsImmutable ==
  [][\A i \in (DOMAIN msg) \cap (DOMAIN msg') : msg'[i].val = msg[i].val]_vars

\* C17 as stated (Spec): each message record belongs to exactly one
\* mailbox.  In every state a message id stands at one place of one
\* directory at most, and a listed id whose record is present is the id of a
\* record addressed to that mailbox.
C17_OneMailboxPerId ==
  \A l \in DOMAIN inbox :
    \A k \in 1..Len(DirectoryOf(l)) :
      LET id == DirectoryOf(l)[k].id IN
      id # INIT_PLACEHOLDER
        => /\ \A l2 \in DOMAIN inbox :
                \A k2 \in 1..Len(DirectoryOf(l2)) :
                  DirectoryOf(l2)[k2].id = id => (l2 = l /\ k2 = k)
           /\ id \in DOMAIN msg => splitAt0(msg[id].val.to) = l

(* ---------------------------------------------------------------------- *)
(* DELETE /messages/:mailbox of the ioredis variant (src/unnamed/part_005)  *)
(* ---------------------------------------------------------------------- *)
\* DEL key [key ...]
rDelAll(m, ks) == [k \in (DOMAIN m) \ ks |-> m[k]]

\* The ids of the records a list holds: parsed.map((r) => r.id)
IdsOf(items) == { items[k].id : k \in 1..Len(items) }

\* Mailboxes a client asks to delete: one that receives mail, under two
\* spellings, and a name that is no address.
DeleteParams == { <<"a", "@", "d", ".", "g">>, <<"A", "@", "d", ".", "g">>, <<"a">> }

\* The route up to `withTimeout(redis.lrange(key, 0, -1), 1500)`.  History:
\* ids keeps what the list held when the request came in.
DeleteCall(p) ==
  /\ Ready(p)
  /\ \E mailbox \in DeleteParams :
       LET addr == normalizeEmail(mailbox) IN
       IF ~isValidEmail(addr)
         THEN proc' = [proc EXCEPT ![p] =
                        [Idle EXCEPT !.op = "delete", !.pc = "done", !.status = 400]]
         ELSE proc' = [proc EXCEPT ![p] =
                        [Idle EXCEPT !.op = "delete", !.pc = "lrange",
                                     !.local = mailboxKey(addr), !.timer = TRUE,
                                     !.ids = DirectoryOf(mailboxKey(addr))]]
  /\ UNCHANGED <<inbox, msg, now, nextId, budget, stamp>>

\* The store answers the lrange first: idsRaw is the whole list.
DeleteLRange(p) ==
  /\ proc[p].op = "delete" /\ proc[p].pc = "lrange"
  /\ LET idsRaw == rLRange(inbox, proc[p].local, 0, -1) IN
       proc' = [proc EXCEPT ![p].out = idsRaw, ![p].timer = FALSE,
                            ![p].pc = IF Len(idsRaw) > 0 THEN "delmsgs" ELSE "delkey"]
  /\ UNCHANGED <<inbox, msg, now, nextId, budget, stamp>>

\* The timer fires first, or the call rejects: `.catch(() => [])`, idsRaw
\* is the empty list.
DeleteLRangeCaught(p) ==
  /\ proc[p].op = "delete" /\ proc[p].pc = "lrange"
  /\ \E cause \in {"timeout", "error"} :
       proc' = [proc EXCEPT ![p].out = <<>>, ![p].timer = FALSE, ![p].cause = cause,
                            ![p].pc = "delkey"]
  /\ UNCHANGED <<inbox, msg, now, nextId, budget, stamp>>

\* redis.del(...ids.map(messageKey)).catch(() => {}): the keys are removed,
\* or the call rejects and the rejection is dropped.
DeleteRecords(p) ==
  /\ proc[p].op = "delete" /\ proc[p].pc = "delmsgs"
  /\ \E rejected \in BOOLEAN :
       IF rejected
         THEN /\ msg' = msg
              /\ proc' = [proc EXCEPT ![p].pc = "delkey", ![p].cause = "error"]
         ELSE /\ msg' = rDelAll(msg, IdsOf(proc[p].out))
              /\ proc' = [Disturb(proc, p) EXCEPT ![p].pc = "delkey", ![p].writes = @ + 1]
  /\ UNCHANGED <<inbox, now, nextId, budget, stamp>>

\* redis.del(key).catch(() => {}); res.json({ mailbox, deleted: true })
DeleteKey(p) ==
  /\ proc[p].op = "delete" /\ proc[p].pc = "delkey"
  /\ \E rejected \in BOOLEAN :
       IF rejected
         THEN /\ inbox' = inbox
              /\ proc' = [proc EXCEPT ![p].pc = "done", ![p].status = 200,
                                      ![p].cause = "error"]
         ELSE /\ inbox' = rDel(inbox, proc[p].local)
              /\ proc' = [Disturb(proc, p) EXCEPT ![p].pc = "done", ![p].status = 200,
                                                  ![p].writes = @ + 1]
  /\ UNCHANGED <<msg, now, nextId, budget, stamp>>

deleteMessages(p) ==
  \/ DeleteCall(p) \/ DeleteLRange(p) \/ DeleteLRangeCaught(p)
  \/ DeleteRecords(p) \/ DeleteKey(p)

NextPipelineDelete ==
  \/ Tick
  \/ \E p \in Procs : TestPush(p) \/ storeMessagePipeline(p) \/ deleteMessages(p)

SpecPipelineDelete == Init /\ [][NextPipelineDelete]_vars

\* C18 as stated (SpecPipelineDelete): the cascade of DeleteMailbox.  Once
\* the route has answered deleted: true, having run undisturbed and with no
\* ingestion in flight, the directory key is absent and none of the records
\* the list referred to can be fetched.
C18_DeleteCascade ==
  \A p \in Procs :
    ( /\ proc[p].op = "delete" /\ proc[p].pc = "done" /\ proc[p].status = 200
      /\ proc[p].clean
      /\ \A q \in Procs \ {p} : Ready(q) )
      => /\ proc[p].local \notin DOMAIN inbox
         /\ \A k \in 1..Len(proc[p].ids) : rGet(msg, proc[p].ids[k].id).nil

(* ---------------------------------------------------------------------- *)
(* POST /cloudflare/inbound of src/server.js and the two readers           *)
(* ---------------------------------------------------------------------- *)
\* Mails posted to the route: to a mailbox address or to a name without
\* "@", with no plaintext, a short plaintext, or one longer than a preview.
InboundAddrs == { <<"a", "@", "d", ".", "g">>, <<"a">> }
LongText == [i \in 1..(PREVIEW_LEN + 1) |-> "x"]
MailTexts == { <<>>, <<"H", "i">>, LongText }

\* The raw MIME text of such a mail: the To header, an empty line, the body.
MimeOf(addr, text) == <<"T", "o", ":">> \o addr \o <<"\n", "\n">> \o text

\* The route up to the first store command of storeMessage: simpleParser,
\* to, the "@" check, and storeMessage({ to, text: mail.text || "",
\* raw: req.body.toString("utf8"), ... }).
CloudflareInbound(p) ==
  /\ Ready(p)
  /\ \E addr \in InboundAddrs, text \in MailTexts :
       LET to == toLowerCase(addr) IN
       IF ~includesAt(to)
         THEN Refuse(p, "cloudflare", 400, TRUE)
         ELSE StoreSetRaw(p, "cloudflare", nextId, to, text, MimeOf(addr, text))

NextInbound ==
  \/ Tick
  \/ \E p \in Procs : \/ CloudflareInbound(p) \/ storeMessage(p)
                      \/ handleInbox(p) \/ handleMessage(p)

SpecInbound == Init /\ [][NextInbound]_vars

\* a is the beginning of b.
IsPrefix(a, b) == Len(a) <= Len(b) /\ \A i \in 1..Len(a) : a[i] = b[i]

\* C19 as stated (SpecInbound): ingest-then-read.  A listing that ran
\* undisturbed, with no ingestion in flight, holds, for every id among the first 50 of its directory whose
\* record is present, exactly one summary with that id, and the preview of
\* the summary is a beginning of the plaintext of the record; a message
\* fetch answered 200 carries the plaintext of the record as body_plain.
C19_IngestThenRead ==
  /\ \A p \in Procs :
       ( /\ proc[p].op = "inbox" /\ proc[p].pc = "done" /\ proc[p].status = 200
         /\ proc[p].clean
         /\ \A q \in Procs \ {p} : Ready(q) )
         => LET dir == rLRange(inbox, proc[p].local, 0, LIST_LAST)
                out == proc[p].out
            IN  \A k \in 1..Len(dir) :
                  dir[k].id \in DOMAIN msg
                    => /\ Cardinality({ j \in 1..Len(out) : out[j].id = dir[k].id }) = 1
                       /\ \A j \in 1..Len(out) :
                            out[j].id = dir[k].id
                              => IsPrefix(out[j].preview, msg[dir[k].id].val.text)
  /\ \A p \in Procs :
       ( /\ proc[p].op = "message" /\ proc[p].pc = "done" /\ proc[p].status = 200
         /\ proc[p].id \in DOMAIN msg )
         => proc[p].out[1].body_plain = msg[proc[p].id].val.text

(* ---------------------------------------------------------------------- *)
(* Recipients of src/server.js spelled with capital letters                *)
(* ---------------------------------------------------------------------- *)
\* Two mails for the mailbox a@d.g, each under its own spelling of the
\* address and with its own text.
CaseMails ==
  { [to |-> <<"A", "@", "d", ".", "g">>, text |-> <<"t", "1">>],
    [to |-> <<"a", "@", "D", ".", "g">>, text |-> <<"t", "2">>] }

\* POST /incoming-email with the API key, a sender, no id, and one of these
\* mails.
CaseIncoming(p) ==
  /\ Ready(p)
  /\ \E mail \in CaseMails : StoreSet(p, "incoming", nextId, mail.to, mail.text)

NextCase == Tick \/ \E p \in Procs : CaseIncoming(p) \/ storeMessage(p) \/ handleInbox(p)

SpecCase == Init /\ [][NextCase]_vars

\* C20 (SpecCase): recipient normalization.  Whatever the spelling of the
\* recipient, the only directory written is that of the lowercase local
\* part and every record carries the lowercase address; an ingestion that
\* has completed undisturbed has its id at the head of that directory; and
\* an undisturbed listing of the lowercase mailbox made after it returns
\* the message.
C20_RecipientNormalized ==
  /\ DOMAIN inbox \subseteq { <<"a">> }
  /\ \A id \in DOMAIN msg : msg[id].val.to = <<"a", "@">> \o DOMAIN_NAME
  /\ \A q \in Procs :
       (proc[q].op = "incoming" /\ proc[q].pc = "done" /\ proc[q].status = 200 /\ proc[q].clean)
         => /\ Len(DirectoryOf(<<"a">>)) > 0
            /\ DirectoryOf(<<"a">>)[1].id = proc[q].id
            /\ \A p \in Procs :
                 ( /\ proc[p].op = "inbox" /\ proc[p].pc = "done" /\ proc[p].clean
                   /\ proc[p].local = <<"a">> )
                   => \E j \in 1..Len(proc[p].out) : proc[p].out[j].id = proc[q].id

\* An undisturbed listing of mailbox a, made after an ingestion completed,
\* has returned both mails: the one sent to A@d.g and the one sent to a@D.g.
C20_Witness ==
  \E p, q \in Procs :
    /\ proc[q].op = "incoming" /\ proc[q].pc = "done" /\ proc[q].status = 200 /\ proc[q].clean
    /\ proc[p].op = "inbox" /\ proc[p].pc = "done" /\ proc[p].clean
    /\ proc[p].local = <<"a">>
    /\ \E i, j \in 1..Len(proc[p].out) :
         /\ proc[p].out[i].preview = <<"t", "1">>
         /\ proc[p].out[j].preview = <<"t", "2">>

(* ---------------------------------------------------------------------- *)
(* Listings of a long directory: handleInbox and GET /inbox/:local of the  *)
(* second server of src/server.js (lines 847-875)                          *)
(* ---------------------------------------------------------------------- *)
\* GET /inbox/:local up to rLRange(key, 0, 199); the local parameter is
\* taken as it is.
WideLRange(p) ==
  /\ Ready(p)
  /\ \E local \in InboxParams :
       LET ids == rLRange(inbox, local, 0, WIDE_LAST)
           j   == NextListed(ids, 1)
       IN  proc' = [proc EXCEPT ![p] =
                     [Idle EXCEPT !.op = "wideinbox", !.local = local, !.ids = ids, !.i = j,
                                  !.pc = IF j > Len(ids) THEN "done" ELSE "get",
                                  !.status = IF j > Len(ids) THEN 200 ELSE 0]]
  /\ UNCHANGED <<inbox, msg, now, nextId, budget, stamp>>

\* One turn of its loop: rGet(messageKey(id)); a missing record is skipped;
\* preview: (m.text || "").slice(0, 220).  After the last id:
\* res.json({ ok: true, messages }).
WideGet(p) ==
  /\ proc[p].op = "wideinbox" /\ proc[p].pc = "get"
  /\ LET ids == proc[p].ids
         raw == rGet(msg, ids[proc[p].i].id)
         out == IF raw.nil THEN proc[p].out
                ELSE Append(proc[p].out,
                            [id |-> raw.val.id,
                             preview |-> slice(raw.val.text, 0, WIDE_PREVIEW_LEN)])
         j   == NextListed(ids, proc[p].i + 1)
     IN  proc' = [proc EXCEPT ![p].out = out, ![p].i = j,
                              ![p].pc = IF j > Len(ids) THEN "done" ELSE "get",
                              ![p].status = IF j > Len(ids) THEN 200 ELSE 0]
  /\ UNCHANGED <<inbox, msg, now, nextId, budget, stamp>>

\* The store after n mails were ingested for a@d.g at time 0: no mail,
\* two, or one more than a listing of 50 shows.
InitListing ==
  /\ \E n \in {0, 2, LIST_LAST + 2} :
       /\ inbox = IF n = 0 THEN <<>>
                  ELSE Put(<<>>, <<"a">>,
                           [items |-> [i \in 1..n |-> [id |-> n + 1 - i, seq |-> n + 1 - i]],
                            exp |-> ExpiryAt(INBOX_TTL)])
       /\ msg = [i \in 1..n |->
                   [val |-> [id |-> i, to |-> <<"a", "@">> \o DOMAIN_NAME,
                             text |-> <<"t", "1">>, raw |-> <<>>],
                    exp |-> ExpiryAt(MSG_TTL)]]
       /\ nextId = n + 1
       /\ stamp = n
  /\ now = 0
  /\ proc = [p \in Procs |-> Idle]
  /\ budget = 0

\* One listing at a time, while time passes.
SpecListing ==
  InitListing
  /\ [][\/ Tick
         \/ handleInbox(Sequential) \/ WideLRange(Sequential) \/ WideGet(Sequential)]_vars

\* C21 as stated (SpecListing): bounds of a listing.  Every listing answers
\* 200; it has looked at 50 ids at most; and one during which the store did
\* not change has looked at the head of the directory and answers the ids
\* of those whose record is present, in directory order (nothing for a
\* mailbox without directory key).
C21_ListingBounds ==
  \A p \in Procs :
    (proc[p].op \in {"inbox", "wideinbox"} /\ proc[p].pc = "done")
      => /\ proc[p].status = 200
         /\ Len(proc[p].ids) <= LIST_LAST + 1
         /\ proc[p].clean
              => /\ proc[p].ids = rLRange(inbox, proc[p].local, 0, LIST_LAST)
                 /\ [j \in 1..Len(proc[p].out) |-> proc[p].out[j].id]
                      = [j \in 1..Len(Listing(proc[p].ids)) |-> Listing(proc[p].ids)[j].id]

\* C22 (SpecInbound): whenever the store answers the rGet of handleMessage,
\* the response is 404 if the id has no record at that moment (never
\* written, or expired) and otherwise 200 with the id, the recipient and the
\* plaintext of the record.
C22_NotFoundIffAbsent ==
  [][\A p \in Procs :
       ( /\ proc[p].op = "message" /\ proc[p].pc = "get"
         /\ proc'[p].pc = "done" /\ proc'[p].cause = "answer" )
         => IF proc[p].id \in DOMAIN msg
              THEN /\ proc'[p].status = 200
                   /\ proc'[p].out = << [id |-> msg[proc[p].id].val.id,
                                         to |-> msg[proc[p].id].val.to,
                                         body_plain |-> msg[proc[p].id].val.text] >>
              ELSE proc'[p].status = 404]_vars

\* One fetch was answered 404 for an id that had been written and has
\* expired, another 404 for an id never written, or 200 for a present one.
C22_Witness ==
  \E p, q \in Procs :
    /\ proc[p].op = "message" /\ proc[p].pc = "done" /\ proc[p].status = 404
    /\ proc[p].id < nextId /\ proc[p].id \notin DOMAIN msg
    /\ proc[q].op = "message" /\ proc[q].pc = "done" /\ proc[q].cause = "answer"
    /\ \/ proc[q].status = 200 /\ proc[q].id \in DOMAIN msg
       \/ proc[q].status = 404 /\ proc[q].id >= nextId

(* ---------------------------------------------------------------------- *)
(* The SMTP server of src/unnamed/part_000 lines 122-194, run next to the  *)
(* HTTP server of src/server.js on one store                               *)
(* ---------------------------------------------------------------------- *)
\* isOurDomain: the text between the first "@" and the next one, in lower
\* case, is DOMAIN.
isOurDomain(address) ==
  LET a    == toLowerCase(address)
      rest == SubSeq(a, Len(splitAt0(a)) + 2, Len(a))
  IN  address # <<>> /\ splitAt0(rest) = DOMAIN_NAME

\* onData: the recipient of our domain (550 without one), local, and
\* inboxExists(local), a GET of inbox:<local>.  The key is absent, and the
\* mail is dropped with callback(); or it is the list the HTTP server keeps
\* there, GET is refused with WRONGTYPE and the catch answers 451.  Nothing
\* in the repository stores a string under inbox:<local>, so the writes
\* that follow a true inboxExists are never reached.  `await simpleParser(stream)`
\* is the first statement of the try: a parser failure reaches the catch,
\* which answers 451 (error "parse").
SmtpGate(p) ==
  /\ Ready(p)
  /\ \E parsed \in BOOLEAN, rcpt \in Addrs :
       LET local == toLowerCase(splitAt0(rcpt)) IN
       proc' = [proc EXCEPT ![p] =
                 [Idle EXCEPT !.op = "smtpgate", !.pc = "done", !.local = local,
                              !.pre = RemainingTTL(inbox, local),
                              !.error = IF parsed THEN "" ELSE "parse",
                              !.status = IF ~parsed THEN 451
                                         ELSE IF ~isOurDomain(rcpt) THEN 550
                                         ELSE IF local = <<>> \/ local \notin DOMAIN inbox
                                                THEN 250 ELSE 451]]
  /\ UNCHANGED <<inbox, msg, now, nextId, budget, stamp>>

SpecGate ==
  Init /\ [][Tick \/ \E p \in Procs : CaseIncoming(p) \/ storeMessage(p) \/ SmtpGate(p)]_vars

\* C23 as stated (SpecGate): lazy mailbox creation.  An ingestion for a
\* mailbox without directory that was acknowledged as successful and ran
\* undisturbed leaves a directory of that mailbox holding its message id
\* and nothing else, with a remaining TTL of INBOX_TTL.
C23_LazyCreation ==
  \A p \in Procs :
    ( /\ proc[p].op \in {"incoming", "smtpgate"} /\ proc[p].pc = "done"
      /\ proc[p].status \in {200, 250}
      /\ proc[p].pre = -2 /\ proc[p].clean )
      => /\ Len(DirectoryOf(proc[p].local)) = 1
         /\ DirectoryOf(proc[p].local)[1].id = proc[p].id
         /\ RemainingTTL(inbox, proc[p].local) = INBOX_TTL

(* ---------------------------------------------------------------------- *)
(* Attachments of src/server.js: storeAttachments through                  *)
(* /cloudflare/inbound, and handleAttachment                               *)
(* ---------------------------------------------------------------------- *)
\* attachKey: `att:${msgId}:${idx}`.  The store of the model keeps these
\* keys in msg next to the message keys, as numbers no message id takes.
attachKey(msgId, idx) == 1000 + 10 * msgId + idx

\* Buffer.from(content).toString("base64"): three bytes give four digits of
\* 0..63; a last group of one or two bytes is padded with "=" (64 here).
RECURSIVE b64encode(_)
b64encode(b) ==
  IF b = <<>> THEN <<>>
  ELSE LET n == Min(3, Len(b))
           v == b[1] * 65536 + (IF n >= 2 THEN b[2] * 256 ELSE 0) + (IF n = 3 THEN b[3] ELSE 0)
       IN  << v \div 262144, (v \div 4096) % 64,
              IF n >= 2 THEN (v \div 64) % 64 ELSE 64,
              IF n = 3 THEN v % 64 ELSE 64 >>
           \o b64encode(SubSeq(b, 4, Len(b)))

\* Buffer.from(String(b64), "base64"): four digits give three bytes, fewer
\* where the group is padded.
RECURSIVE b64decode(_)
b64decode(s) ==
  IF Len(s) < 4 THEN <<>>
  ELSE LET d(k) == IF s[k] = 64 THEN 0 ELSE s[k]
           v    == d(1) * 262144 + d(2) * 4096 + d(3) * 64 + d(4)
           n    == IF s[3] = 64 THEN 1 ELSE IF s[4] = 64 THEN 2 ELSE 3
       IN  SubSeq(<< v \div 65536, (v \div 256) % 256, v % 256 >>, 1, n)
           \o b64decode(SubSeq(s, 5, Len(s)))

\* The attachments of the mails posted: a small one and one above the
\* ceiling; an empty one and one at the ceiling; a single one.  All but the
\* single one are inline images with a content id.
AttachLists ==
  LET content(n) == [k \in 1..n |-> (k * 83 + n * 171) % 256]
      a(n)       == [content |-> content(n), size |-> n,
                     cid |-> IF n = 3 THEN <<>> ELSE <<"i", "m", "g", n>>]
  IN  { << a(2), a(MAX_ATTACH_BYTES + 1) >>,
        << a(0), a(MAX_ATTACH_BYTES) >>,
        << a(3) >> }

\* The HTML body of a mail, as its sequence of image references: one
\* "cid:<content id>" for every inline image among the attachments.  A
\* reference that resolveCidHtml has rewritten names the path
\* /attachment/<id>/<idx> instead.
HtmlOf(atts) ==
  LET ref(a) == [cid |-> a.cid, id |-> 0, idx |-> 0]
      inline(a) == a.cid # <<>>
  IN  [k \in 1..Len(SelectSeq(atts, inline)) |-> ref(SelectSeq(atts, inline)[k])]

\* resolveCidHtml: for every attachment that has a cid, in order, each
\* "cid:<cid>" of the HTML becomes /attachment/<msgId>/<a.idx>.
resolveCidHtml(html, msgId, atts) ==
  [j \in 1..Len(html) |->
     LET hits == { k \in 1..Len(atts) : atts[k].cid # <<>> /\ atts[k].cid = html[j].cid }
     IN  IF html[j].cid = <<>> \/ hits = {} THEN html[j]
         ELSE [cid |-> <<>>, id |-> msgId,
               idx |-> atts[CHOOSE k \in hits : \A h \in hits : k <= h].idx]]

\* Faulty variant of InboundParse: the record is written before the parser
\* has run, so a mail the parser refuses leaves a record behind.
InboundParseLate(p) ==
  /\ Ready(p)
  /\ budget > 0
  /\ budget' = budget - 1
  /\ nextId' = nextId + 1
  /\ msg' = rSetEX(msg, nextId,
                   [id |-> nextId, to |-> <<>>, text |-> <<>>, raw |-> <<>>,
                    html |-> <<>>, attachments |-> <<>>], MSG_TTL, now)
  /\ proc' = [Disturb(proc, p) EXCEPT ![p] =
                [Idle EXCEPT !.op = "cloudflare", !.pc = "done",
                             !.status = 500, !.error = "parse"]]
  /\ UNCHANGED <<inbox, now, stamp>>

\* POST /cloudflare/inbound up to the end of `await simpleParser(req.body)`
\* and the checks that follow it: a parser failure reaches the catch (500),
\* a recipient without "@" is answered 400; otherwise storeMessage starts
\* (msgId, toLc, local).
InboundParse(p) ==
  /\ Ready(p)
  /\ \E parsed \in BOOLEAN, addr \in InboundAddrs, atts \in AttachLists :
       LET to == toLowerCase(addr) IN
       IF ~parsed
         THEN /\ proc' = [proc EXCEPT ![p] =
                            [Idle EXCEPT !.op = "cloudflare", !.pc = "done",
                                         !.status = 500, !.error = "parse"]]
              /\ UNCHANGED <<inbox, msg, now, nextId, budget, stamp>>
       ELSE IF ~includesAt(to) THEN Refuse(p, "cloudflare", 400, TRUE)
       ELSE /\ budget > 0
            /\ budget' = budget - 1
            /\ nextId' = nextId + 1
            /\ proc' = [proc EXCEPT ![p] =
                          [Idle EXCEPT !.op = "cloudflare", !.pc = "att", !.id = nextId,
                                       !.to = to, !.local = splitAt0(to),
                                       !.text = <<"H", "i">>, !.atts = atts,
                                       !.html = HtmlOf(atts)]]
            /\ UNCHANGED <<inbox, msg, now, stamp>>

\* One turn of the loop of storeAttachments: the metadata of attachment i,
\* and rSetEX(attachKey(msgId, i), b64, MSG_TTL) when it has content and
\* 0 < size <= MAX_ATTACH_BYTES.
AttachStore(p) ==
  /\ proc[p].op = "cloudflare" /\ proc[p].pc = "att" /\ proc[p].i < Len(proc[p].atts)
  /\ LET i    == proc[p].i
         a    == proc[p].atts[i + 1]
         size == IF a.size # 0 THEN a.size ELSE Len(a.content)
         keep == size > 0 /\ size <= MAX_ATTACH_BYTES
         meta == [idx |-> i, size |-> size, cid |-> a.cid,
                  stored |-> IF keep THEN "redis" ELSE "skipped"]
     IN  /\ msg' = IF keep
                     THEN rSetEX(msg, attachKey(proc[p].id, i), b64encode(a.content), MSG_TTL, now)
                     ELSE msg
         /\ proc' = [(IF keep THEN Disturb(proc, p) ELSE proc) EXCEPT
                       ![p].i = i + 1, ![p].meta = Append(@, meta),
                       ![p].writes = IF keep THEN @ + 1 ELSE @]
  /\ UNCHANGED <<inbox, now, nextId, budget, stamp>>

\* After the loop: msg.attachments, and rSetEX(messageKey(msgId), msg, MSG_TTL).
AttachSet(p) ==
  /\ proc[p].op = "cloudflare" /\ proc[p].pc = "att" /\ proc[p].i = Len(proc[p].atts)
  /\ msg' = rSetEX(msg, proc[p].id,
                   [id |-> proc[p].id, to |-> proc[p].to, text |-> proc[p].text,
                    raw |-> MimeOf(proc[p].to, proc[p].text),
                    html |-> resolveCidHtml(proc[p].html, proc[p].id, proc[p].meta),
                    attachments |-> proc[p].meta],
                   MSG_TTL, now)
  /\ proc' = [Disturb(proc, p) EXCEPT ![p].pc = "lpush", ![p].writes = @ + 1,
                                      ![p].didSet = TRUE]
  /\ UNCHANGED <<inbox, now, nextId, budget, stamp>>

\* handleAttachment up to its second store call: the checks of id and idx,
\* rGet(messageKey(id)), the metadata with that idx, its stored mark.
AttachmentMeta(p) ==
  /\ Ready(p)
  /\ \E id \in MessageParams, idx \in -1..1 :
       LET rawMsg == rGet(msg, id)
           found  == IF rawMsg.nil THEN {}
                     ELSE { k \in 1..Len(rawMsg.val.attachments) :
                              rawMsg.val.attachments[k].idx = idx }
           answer(code, err) ==
             proc' = [proc EXCEPT ![p] =
                       [Idle EXCEPT !.op = "attachment", !.pc = "done", !.id = id,
                                    !.idx = idx, !.status = code, !.error = err]]
       IN  IF idx < 0 THEN answer(400, "invalid_idx")
           ELSE IF rawMsg.nil THEN answer(404, "not_found")
           ELSE IF found = {} THEN answer(404, "attachment_not_found")
           ELSE IF \E k \in found : rawMsg.val.attachments[k].stored # "redis"
             THEN answer(413, "attachment_not_stored_here")
             ELSE proc' = [proc EXCEPT ![p] =
                            [Idle EXCEPT !.op = "attachment", !.pc = "get", !.id = id,
                                         !.idx = idx]]
  /\ UNCHANGED <<inbox, msg, now, nextId, budget, stamp>>

\* Faulty variant of AttachmentData: the stored text is sent as it is.
AttachmentDataUndecoded(p) ==
  /\ proc[p].op = "attachment" /\ proc[p].pc = "get"
  /\ LET b64 == rGet(msg, attachKey(proc[p].id, proc[p].idx)) IN
       IF b64.nil
         THEN proc' = [proc EXCEPT ![p].pc = "done", ![p].status = 404,
                                   ![p].error = "attachment_data_missing"]
         ELSE proc' = [proc EXCEPT ![p].pc = "done", ![p].status = 200,
                                   ![p].out = b64.val]
  /\ UNCHANGED <<inbox, msg, now, nextId, budget, stamp>>

\* rGet(attachKey(id, idx)): no payload is 404 attachment_data_missing,
\* otherwise the decoded bytes are sent.
AttachmentData(p) ==
  /\ proc[p].op = "attachment" /\ proc[p].pc = "get"
  /\ LET b64 == rGet(msg, attachKey(proc[p].id, proc[p].idx)) IN
       IF b64.nil
         THEN proc' = [proc EXCEPT ![p].pc = "done", ![p].status = 404,
                                   ![p].error = "attachment_data_missing"]
         ELSE proc' = [proc EXCEPT ![p].pc = "done", ![p].status = 200,
                                   ![p].out = b64decode(b64.val)]
  /\ UNCHANGED <<inbox, msg, now, nextId, budget, stamp>>

SpecAttach ==
  Init /\ [][\/ Tick
            \/ \E p \in Procs : \/ InboundParse(p) \/ AttachStore(p) \/ AttachSet(p)
                                \/ storeMessage(p)
                                \/ AttachmentMeta(p) \/ AttachmentData(p)]_vars

\* C24: every attachment of an ingested message has a metadata entry at its
\* index; the entry is marked stored if and only if the size of the
\* attachment is within MAX_ATTACH_BYTES, and an entry that is not marked
\* stored has no payload key.
C24_SizeCeiling ==
  \A p \in { r \in Procs : proc[r].op = "cloudflare" /\ proc[r].didSet } :
    /\ Len(proc[p].meta) = Len(proc[p].atts)
    /\ \A k \in 1..Len(proc[p].atts) :
         /\ proc[p].meta[k].idx = k - 1
         /\ (proc[p].meta[k].stored = "redis")
              <=> (Len(proc[p].atts[k].content) <= MAX_ATTACH_BYTES)
         /\ proc[p].meta[k].stored # "redis"
              => attachKey(proc[p].id, k - 1) \notin DOMAIN msg

\* C25: handleAttachment answers 404 when the parent record is absent or has
\* no metadata at the index, 413 when the metadata is not marked stored, and
\* 200 with the payload when it is marked stored; for a present parent one
\* of the three holds.
C25_AttachmentOutcomes ==
  [][\A p \in Procs :
       ( /\ proc'[p].op = "attachment" /\ proc'[p].pc = "done"
         /\ proc[p].pc # "done" \/ proc[p].op # "attachment"
         /\ proc'[p].status # 400 )
         => LET id    == proc'[p].id
                metas == IF id \in DOMAIN msg THEN msg[id].val.attachments ELSE <<>>
                found == { k \in 1..Len(metas) : metas[k].idx = proc'[p].idx }
            IN  IF id \notin DOMAIN msg THEN proc'[p].status = 404
                ELSE IF found = {} THEN proc'[p].status = 404
                ELSE IF \E k \in found : metas[k].stored # "redis"
                  THEN proc'[p].status = 413
                  ELSE proc'[p].status = 200]_vars

\* C26: whenever a record is present and one of its metadata entries is
\* marked stored, the payload key of that entry is present.
C26_PayloadOutlivesNothing ==
  \A id \in DOMAIN msg :
    id < nextId =>
      \A k \in 1..Len(msg[id].val.attachments) :
        msg[id].val.attachments[k].stored = "redis"
          => attachKey(id, msg[id].val.attachments[k].idx) \in DOMAIN msg

\* C27: the bytes handleAttachment sends for a stored attachment are the
\* bytes that were ingested; decoding the base64 text of a payload gives the
\* payload.
C27_RoundTrip ==
  /\ \A atts \in AttachLists : \A k \in 1..Len(atts) :
       b64decode(b64encode(atts[k].content)) = atts[k].content
  /\ \A p \in { r \in Procs : proc[r].op = "cloudflare" /\ proc[r].didSet }, q \in Procs :
       ( /\ proc[q].op = "attachment" /\ proc[q].pc = "done" /\ proc[q].status = 200
         /\ proc[q].id = proc[p].id )
         => proc[q].out = proc[p].atts[proc[q].idx + 1].content

\* A payload of three bytes and more (a padded last group) has been fetched
\* while the ingestion that wrote it is still on record.
C27_Witness ==
  \E p \in { r \in Procs : proc[r].op = "cloudflare" /\ proc[r].didSet }, q \in Procs :
    /\ proc[q].op = "attachment" /\ proc[q].pc = "done" /\ proc[q].status = 200
    /\ proc[q].id = proc[p].id
    /\ Len(proc[q].out) = MAX_ATTACH_BYTES

(* ---------------------------------------------------------------------- *)
(* Mails the MIME parser refuses: /cloudflare/inbound of src/server.js and *)
(* onData of src/unnamed/part_000                                          *)
(* ---------------------------------------------------------------------- *)
SpecParse ==
  Init /\ [][\/ Tick
            \/ \E p \in Procs : \/ InboundParse(p) \/ AttachStore(p) \/ AttachSet(p)
                                \/ storeMessage(p) \/ SmtpGate(p)]_vars

\* C28: an ingestion on which the MIME parser fails is answered with a
\* failure (500 over HTTP, 451 over SMTP); it has made no store write before
\* and makes none with that answer: records, attachment keys and
\* directories are as they were.
C28_ParseFailureStoresNothing ==
  [][\A p \in Procs :
       (proc'[p].error = "parse" /\ proc'[p] # proc[p])
         => /\ proc'[p].pc = "done"
            /\ proc'[p].status = IF proc'[p].op = "smtpgate" THEN 451 ELSE 500
            /\ Ready(p)
            /\ proc'[p].writes = 0
            /\ msg' = msg
            /\ inbox' = inbox]_vars

\* The parser has failed on a mail of each transport while the store holds
\* a record with an attachment and a directory.
C28_Witness ==
  /\ \E p \in Procs : proc[p].op = "cloudflare" /\ proc[p].error = "parse"
  /\ \E p \in Procs : proc[p].op = "smtpgate" /\ proc[p].error = "parse"
  /\ \E id \in DOMAIN msg : attachKey(id, 0) \in DOMAIN msg
  /\ inbox # <<>>

(* ---------------------------------------------------------------------- *)
(* Concurrent ingestions (SpecIngest)                                      *)
(* ---------------------------------------------------------------------- *)
\* C29: when MaxWrites ingestions with distinct fresh ids have all completed
\* and no time has passed, each id is in the directory of its mailbox
\* exactly once, and the directory is in the order of the pushes, the later
\* push first.
C29_ConcurrentIngestionsKept ==
  ( /\ \A p \in Procs : Ready(p)
    /\ budget = 0 /\ nextId = MaxWrites + 1 /\ now = 0 )
    => \A id \in 1..MaxWrites :
         /\ id \in DOMAIN msg
         /\ LET l     == splitAt0(msg[id].val.to)
                items == DirectoryOf(l)
            IN  /\ Cardinality({ k \in 1..Len(items) : items[k].id = id }) = 1
                /\ \A j, k \in 1..Len(items) : j < k => items[j].seq > items[k].seq

\* Two ingestions for one mailbox have completed and the id drawn second was
\* pushed first: the two ran interleaved.
C29_Witness ==
  /\ \A p \in Procs : Ready(p)
  /\ budget = 0 /\ nextId = MaxWrites + 1 /\ now = 0
  /\ \E l \in DOMAIN inbox :
       /\ Len(inbox[l].items) = 2
       /\ inbox[l].items[1].id = 1 /\ inbox[l].items[2].id = 2
       /\ inbox[l].items[1].seq > inbox[l].items[2].seq

(* ---------------------------------------------------------------------- *)
(* An append abandoned after its push: storeMessage of src/server.js and   *)
(* /push of its first server                                               *)
(* ---------------------------------------------------------------------- *)
\* The process stops, or the store refuses a command of the append (rLPush,
\* rLTrim or rExpire rejects, storeMessage throws, the catch of the entry
\* point answers 500): that command and those after it are not issued.
Abandon(p) ==
  /\ proc[p].op \in StoreOps \cup {"push"}
  /\ proc[p].pc \in {"lpush", "ltrim", "expire"}
  /\ proc' = [proc EXCEPT ![p].pc = "done", ![p].status = 500, ![p].cause = "abandoned"]
  /\ UNCHANGED <<inbox, msg, now, nextId, budget, stamp>>

SpecCrash ==
  Init /\ [][\/ Tick
            \/ \E p \in Procs : \/ CaseIncoming(p) \/ storeMessage(p)
                                \/ PushSet(p) \/ PushLPush(p) \/ PushExpire(p)
                                \/ Abandon(p)]_vars

\* C30: once an append was abandoned after its push and no request is in
\* flight, every directory key that exists has an expiry set.
C30_AbandonedAppendKeepsTTL ==
  ( /\ \A p \in Procs : Ready(p)
    /\ \E p \in Procs : proc[p].cause = "abandoned" /\ proc[p].didPush )
    => \A l \in DOMAIN inbox : inbox[l].exp.has

(* ---------------------------------------------------------------------- *)
(* The three readers of src/server.js beside one ingestion at a time       *)
(* ---------------------------------------------------------------------- *)
SpecReadOnly ==
  Init /\ [][\/ Tick
            \/ InboundParse(Sequential) \/ AttachStore(Sequential) \/ AttachSet(Sequential)
            \/ storeMessage(Sequential)
            \/ \E p \in Procs : \/ handleInbox(p) \/ handleMessage(p)
                                \/ AttachmentMeta(p) \/ AttachmentData(p)]_vars

\* C31: a step of handleInbox, handleMessage or handleAttachment (a step in
\* which no time passes and no ingestion moves) leaves the store as it is:
\* the same keys, the same lists and records, the same expiry times.
C31_ReadersReadOnly ==
  [][( /\ now' = now
       /\ \A p \in Procs : proc'[p].op = "cloudflare" => proc'[p] = proc[p]
       /\ \A p \in Procs : proc[p].op = "cloudflare" => proc'[p].op = "cloudflare" )
       => /\ inbox' = inbox
          /\ msg' = msg]_vars

\* A listing has returned an entry and an attachment has been served.
C31_Witness ==
  \E p, q \in Procs :
    /\ proc[p].op = "inbox" /\ proc[p].pc = "done" /\ Len(proc[p].out) >= 1
    /\ proc[q].op = "attachment" /\ proc[q].pc = "done" /\ proc[q].status = 200

(* ---------------------------------------------------------------------- *)
(* Listings and fetches of src/unnamed/part_005 beside its ingestion       *)
(* (SpecPipelineReaders)                                                   *)
(* ---------------------------------------------------------------------- *)
\* C32: while no time has passed since the ingestions, every id a listing
\* has shown has its record in the store, and a fetch that ran undisturbed
\* and answered 404 asked for an id that no directory holds.
C32_ListedImpliesFetchable ==
  now = 0 =>
    \A p \in Procs :
      /\ (proc[p].op = "list" /\ proc[p].pc = "done" /\ proc[p].status = 200)
           => \A j \in 1..Len(proc[p].out) : proc[p].out[j].id \in DOMAIN msg
      /\ ( /\ proc[p].op = "fetch" /\ proc[p].pc = "done" /\ proc[p].status = 404
           /\ proc[p].clean )
           => \A l \in DOMAIN inbox : \A j \in 1..Len(inbox[l].items) :
                inbox[l].items[j].id # proc[p].id

(* ---------------------------------------------------------------------- *)
(* Inline images (SpecAttach)                                              *)
(* ---------------------------------------------------------------------- *)
\* C33: in the HTML of a stored record, a "cid:" reference of the mail has
\* been rewritten to the attachment path if and only if the attachment with
\* that content id is marked stored.
C33_CidRewriteOnlyStored ==
  \A p \in { r \in Procs : proc[r].op = "cloudflare" /\ proc[r].didSet } :
    proc[p].id \in DOMAIN msg =>
      LET rec == msg[proc[p].id].val IN
      /\ Len(rec.html) = Len(proc[p].html)
      /\ \A j \in 1..Len(rec.html) :
           (rec.html[j] # proc[p].html[j])
             <=> \E k \in 1..Len(rec.attachments) :
                   /\ rec.attachments[k].cid = proc[p].html[j].cid
                   /\ rec.attachments[k].stored = "redis"

(* ---------------------------------------------------------------------- *)
(* /create beside an ingestion for the same local part (Spec)              *)
(* ---------------------------------------------------------------------- *)
\* C34: once the requests have completed, no directory holds the
\* "__init__" placeholder; and the rLTrim(key, 1, -1) of handleCreate takes
\* no message id out of the directory (every id in it was pushed after the
\* rDel of that handleCreate, or of a later one).
C34_CreateRacesIngestion ==
  [][/\ (\A p \in Procs : proc'[p].pc \in {"idle", "done"})
          => \A l \in DOMAIN inbox' : \A j \in 1..Len(inbox'[l].items) :
               inbox'[l].items[j].id # INIT_PLACEHOLDER
     /\ \A p \in Procs :
          (proc[p].op = "create" /\ proc[p].pc = "ltrim" /\ proc'[p].pc = "expire")
            => \A j \in 1..Len(DirectoryOf(proc[p].local)) :
                 LET e == DirectoryOf(proc[p].local)[j] IN
                 e.id # INIT_PLACEHOLDER
                   => /\ proc[p].local \in DOMAIN inbox'
                      /\ \E k \in 1..Len(inbox'[proc[p].local].items) :
                           inbox'[proc[p].local].items[k] = e]_vars

\* C35 (SpecCrash): an ingestion that was answered with a failure because a
\* store command of storeMessage failed has left its id in no directory.
C35_FailedIngestionInvisible ==
  \A p \in Procs :
    ( /\ proc[p].op \in StoreOps /\ proc[p].pc = "done"
      /\ proc[p].status = 500 /\ proc[p].cause = "abandoned" )
      => \A l \in DOMAIN inbox : \A j \in 1..Len(inbox[l].items) :
           inbox[l].items[j].id # proc[p].id

(* ---------------------------------------------------------------------- *)
(* src/unnamed/part_001: storeMessage and DELETE /messages/:mailbox        *)
(* ---------------------------------------------------------------------- *)
\* POST /_test/push with its storeMessage, one store command per step:
\* redis.set(mKey, record, "EX", MSG_TTL), redis.lpush(listKey, record.id),
\* redis.ltrim(listKey, 0, 199), redis.expire(listKey, INBOX_TTL).
MailboxPush(p) ==
  \/ /\ Ready(p)
     /\ budget > 0
     /\ \E addr \in DeleteParams :
          LET to == toLowerCase(addr) IN
          /\ msg' = rSetEX(msg, nextId, [id |-> nextId, to |-> to, text |-> <<"H", "i">>],
                           MSG_TTL, now)
          /\ proc' = [Disturb(proc, p) EXCEPT ![p] =
                        [Idle EXCEPT !.op = "mailboxpush", !.pc = "lpush", !.id = nextId,
                                     !.local = mailboxKey(to), !.writes = 1,
                                     !.didSet = TRUE]]
     /\ budget' = budget - 1
     /\ nextId' = nextId + 1
     /\ UNCHANGED <<inbox, now, stamp>>
  \/ /\ proc[p].op = "mailboxpush" /\ proc[p].pc = "lpush"
     /\ inbox' = rLPush(inbox, proc[p].local, Elem(proc[p].id))
     /\ stamp' = stamp + 1
     /\ proc' = [Disturb(proc, p) EXCEPT ![p].pc = "ltrim", ![p].writes = @ + 1,
                                         ![p].didPush = TRUE]
     /\ UNCHANGED <<msg, now, nextId, budget>>
  \/ /\ proc[p].op = "mailboxpush" /\ proc[p].pc = "ltrim"
     /\ inbox' = rLTrim(inbox, proc[p].local, 0, TRIM_LAST)
     /\ proc' = [Disturb(proc, p) EXCEPT ![p].pc = "expire", ![p].writes = @ + 1]
     /\ UNCHANGED <<msg, now, nextId, budget, stamp>>
  \/ /\ proc[p].op = "mailboxpush" /\ proc[p].pc = "expire"
     /\ inbox' = rExpire(inbox, proc[p].local, INBOX_TTL, now)
     /\ proc' = [Disturb(proc, p) EXCEPT ![p].pc = "done", ![p].status = 200,
                                         ![p].writes = @ + 1]
     /\ UNCHANGED <<msg, now, nextId, budget, stamp>>

\* DELETE /messages/:mailbox, one store command per step:
\* redis.lrange(key, 0, -1), redis.del(...ids.map(messageKey)) when there are
\* ids, redis.del(key); then { deleted: true }.
MailboxDelete(p) ==
  \/ /\ Ready(p)
     /\ \E mailbox \in DeleteParams :
          LET ids == rLRange(inbox, mailboxKey(mailbox), 0, -1) IN
          proc' = [proc EXCEPT ![p] =
                    [Idle EXCEPT !.op = "mailboxdelete", !.local = mailboxKey(mailbox),
                                 !.ids = ids,
                                 !.pc = IF Len(ids) > 0 THEN "delmsgs" ELSE "delkey"]]
     /\ UNCHANGED <<inbox, msg, now, nextId, budget, stamp>>
  \/ /\ proc[p].op = "mailboxdelete" /\ proc[p].pc = "delmsgs"
     /\ msg' = rDelAll(msg, IdsOf(proc[p].ids))
     /\ proc' = [Disturb(proc, p) EXCEPT ![p].pc = "delkey", ![p].writes = @ + 1]
     /\ UNCHANGED <<inbox, now, nextId, budget, stamp>>
  \/ /\ proc[p].op = "mailboxdelete" /\ proc[p].pc = "delkey"
     /\ inbox' = rDel(inbox, proc[p].local)
     /\ proc' = [Disturb(proc, p) EXCEPT ![p].pc = "done", ![p].status = 200,
                                         ![p].writes = @ + 1]
     /\ UNCHANGED <<msg, now, nextId, budget, stamp>>

SpecMailbox ==
  Init /\ [][Tick \/ \E p \in Procs : MailboxPush(p) \/ MailboxDelete(p)]_vars

\* C36: once the requests have completed (and no time has passed), every
\* record present in the store has its id in a directory: a delete that ran
\* beside an ingestion leaves no record behind that no directory names.
C36_DeleteLeavesNoOrphan ==
  ((\A p \in Procs : Ready(p)) /\ now = 0)
    => \A id \in DOMAIN msg :
         \E l \in DOMAIN inbox : \E j \in 1..Len(inbox[l].items) :
           inbox[l].items[j].id = id

(* ---------------------------------------------------------------------- *)
(* What an append and a creation leave alone (Spec)                        *)
(* ---------------------------------------------------------------------- *)
\* C37: a store command of an ingestion into mailbox L leaves every other
\* directory as it is (elements and expiry), and leaves every record that
\* was stored before the command as it is (content and expiry).
C37_AppendFrame ==
  [][\A p \in Procs :
       (proc'[p].op \in StoreOps /\ proc'[p].writes # proc[p].writes)
         => /\ \A l \in (DOMAIN inbox \cup DOMAIN inbox') \ {proc'[p].local} :
                 l \in DOMAIN inbox /\ l \in DOMAIN inbox' /\ inbox'[l] = inbox[l]
            /\ \A i \in DOMAIN msg : i \in DOMAIN msg' /\ msg'[i] = msg[i]]_vars

SpecCreateFrame ==
  Init /\ [][\/ Tick
            \/ \E p \in Procs : \/ handleCreate(p) \/ CaseIncoming(p) \/ storeMessage(p)
                                \/ handleMessage(p)]_vars

\* C38: a store command of handleCreate for local changes no record (none
\* is deleted, none is altered, no expiry moves) and no directory other
\* than that of local; and handleMessage answers a present record with 200
\* and its content, whatever handleCreate did to the directory naming it.
C38_CreateFrame ==
  [][\A p \in Procs :
       /\ (proc'[p].op = "create" /\ proc'[p].writes # proc[p].writes)
            => /\ msg' = msg
               /\ \A l \in (DOMAIN inbox \cup DOMAIN inbox') \ {proc'[p].local} :
                    l \in DOMAIN inbox /\ l \in DOMAIN inbox' /\ inbox'[l] = inbox[l]
       /\ ( /\ proc[p].op = "message" /\ proc[p].pc = "get"
            /\ proc'[p].pc = "done" /\ proc'[p].cause = "answer"
            /\ proc[p].id \in DOMAIN msg )
            => /\ proc'[p].status = 200
               /\ proc'[p].out[1].id = proc[p].id
               /\ proc'[p].out[1].to = msg[proc[p].id].val.to]_vars

\* A mailbox that had received a mail was created anew, its directory is
\* gone before any time has passed, and the mail has been fetched by id
\* afterwards.
C38_Witness ==
  \E p, q \in Procs :
    /\ now = 0
    /\ proc[q].op = "create" /\ proc[q].pc = "done"
    /\ proc[q].local \notin DOMAIN inbox
    /\ proc[p].op = "message" /\ proc[p].pc = "done" /\ proc[p].status = 200
    /\ splitAt0(proc[p].out[1].to) = proc[q].local

(* ---------------------------------------------------------------------- *)
(* The API key of the ingestion entry points of src/server.js:             *)
(* /incoming-email, /push (multipart, lines 650-691), /push (lines 35-113) *)
(* ---------------------------------------------------------------------- *)
\* Faulty variant of KeyedRequest: /incoming-email lets a request without
\* key pass.
KeyedRequestLax(p) ==
  /\ Ready(p)
  /\ \E route \in {"incoming", "pushform", "push"}, field \in SentKeys, header \in SentKeys,
        wellFormed \in BOOLEAN :
       LET sent == CASE route = "incoming" -> header
                     [] route = "pushform" -> IF field # "" THEN field ELSE header
                     [] route = "push"     -> field
           refused == CASE route = "incoming" -> sent # "" /\ sent # API_KEY
                        [] route = "pushform" -> API_KEY # "" /\ sent # API_KEY
                        [] route = "push"     -> sent = "" \/ sent # API_KEY
           to  == <<"a", "@">> \o DOMAIN_NAME
           rec == IF route = "push"
                    THEN [id |-> nextId, to |-> to, text |-> <<"H", "i">>]
                    ELSE [id |-> nextId, to |-> to, text |-> <<"H", "i">>, raw |-> <<>>]
       IN  IF refused \/ ~wellFormed
             THEN /\ proc' = [proc EXCEPT ![p] =
                               [Idle EXCEPT !.op = route, !.pc = "done", !.sent = sent,
                                            !.status = IF refused THEN 401 ELSE 400]]
                  /\ UNCHANGED <<inbox, msg, now, nextId, budget, stamp>>
             ELSE /\ budget > 0
                  /\ budget' = budget - 1
                  /\ nextId' = nextId + 1
                  /\ msg' = rSetEX(msg, nextId, rec, MSG_TTL, now)
                  /\ proc' = [Disturb(proc, p) EXCEPT ![p] =
                                [Idle EXCEPT !.op = route, !.pc = "lpush", !.id = nextId,
                                             !.local = splitAt0(to), !.sent = sent,
                                             !.writes = 1, !.didSet = TRUE]]
                  /\ UNCHANGED <<inbox, now, stamp>>

\* A request to one of the three entry points, up to its first store
\* command.  /incoming-email reads the x-api-key header; /push (multipart)
\* reads the api_key field, or the header when the field is empty; /push of
\* the first server reads the api_key field.  A refused key is answered 401,
\* a request that lacks a required part 400; otherwise the record is set.
KeyedRequest(p) ==
  /\ Ready(p)
  /\ \E route \in {"incoming", "pushform", "push"}, field \in SentKeys, header \in SentKeys,
        wellFormed \in BOOLEAN :
       LET sent == CASE route = "incoming" -> header
                     [] route = "pushform" -> IF field # "" THEN field ELSE header
                     [] route = "push"     -> field
           refused == CASE route = "incoming" -> API_KEY # "" /\ (sent = "" \/ sent # API_KEY)
                        [] route = "pushform" -> API_KEY # "" /\ sent # API_KEY
                        [] route = "push"     -> sent = "" \/ sent # API_KEY
           to  == <<"a", "@">> \o DOMAIN_NAME
           rec == IF route = "push"
                    THEN [id |-> nextId, to |-> to, text |-> <<"H", "i">>]
                    ELSE [id |-> nextId, to |-> to, text |-> <<"H", "i">>, raw |-> <<>>]
       IN  IF refused \/ ~wellFormed
             THEN /\ proc' = [proc EXCEPT ![p] =
                               [Idle EXCEPT !.op = route, !.pc = "done", !.sent = sent,
                                            !.status = IF refused THEN 401 ELSE 400]]
                  /\ UNCHANGED <<inbox, msg, now, nextId, budget, stamp>>
             ELSE /\ budget > 0
                  /\ budget' = budget - 1
                  /\ nextId' = nextId + 1
                  /\ msg' = rSetEX(msg, nextId, rec, MSG_TTL, now)
                  /\ proc' = [Disturb(proc, p) EXCEPT ![p] =
                                [Idle EXCEPT !.op = route, !.pc = "lpush", !.id = nextId,
                                             !.local = splitAt0(to), !.sent = sent,
                                             !.writes = 1, !.didSet = TRUE]]
                  /\ UNCHANGED <<inbox, now, stamp>>

SpecAuth ==
  Init /\ [][\/ Tick
            \/ \E p \in Procs : \/ KeyedRequest(p) \/ storeMessage(p)
                                \/ PushLPush(p) \/ PushExpire(p)]_vars

retryStrategyLinear(times) == times * 200

\* retryStrategy: (times) => Math.min(times * 200, 2000)
retryStrategy(times) == Min(times * 200, 2000)

\* ioredis calls retryStrategy with the number of the attempt after each
\* lost or failed connection and waits the delay it returns; a successful
\* connection resets the count.
Reconnect(p) ==
  \/ /\ proc[p].op \in {"idle", "reconnect"}
     /\ proc[p].i < MaxRetries
     /\ proc' = [proc EXCEPT ![p] =
                   [Idle EXCEPT !.op = "reconnect", !.pc = "wait", !.i = proc[p].i + 1,
                                !.delay = retryStrategy(proc[p].i + 1)]]
     /\ UNCHANGED <<inbox, msg, now, nextId, budget, stamp>>
  \/ /\ proc[p].op = "reconnect"
     /\ proc' = [proc EXCEPT ![p] = Idle]
     /\ UNCHANGED <<inbox, msg, now, nextId, budget, stamp>>

SpecRetry == Init /\ [][\E p \in Procs : Reconnect(p)]_vars

====
